---------------------------- MODULE Spec2Model ----------------------------
(***************************************************************************)
(* A model of the adaptive media delivery engine of senkloud-frontend      *)
(* (src/senkloud-frontend/app.py).                                         *)
(*                                                                         *)
(* Specifications:                                                         *)
(*   SpecStream     the /stream route and stream_file_with_ranges: one     *)
(*                  request at a time against one file, the body generator *)
(*                  stepped chunk by chunk, and a client that assembles    *)
(*                  consecutive range responses.                           *)
(*   SpecToken      the streaming token table, one call at a time.         *)
(*   SpecTokenConc  the streaming token table under Flask's threaded=True: *)
(*                  calls of several threads interleaved statement by      *)
(*                  statement.                                             *)
(*   SpecAuth       the /stream route behind login_required, next to the   *)
(*                  token table.                                           *)
(*   SpecThumb      media files and their thumbnails: upload, scan,        *)
(*                  regeneration, move and delete, one handler at a time,  *)
(*                  the ffmpeg attempts stepped one by one.                *)
(*   SpecThumbConc  scans of several threads over one video.               *)
(*   SpecProbe      get_video_info, is_web_compatible and the routes that  *)
(*                  use them.                                              *)
(*   SpecSeries     episode information, series grouping and episode       *)
(*                  navigation over a changing video directory.            *)
(*   SpecEpisodeInfo  extract_episode_info on file names made of words.    *)
(*   SpecNaturalSort  natural_sort_key on pairs of file names.             *)
(*                                                                         *)
(* A byte of the file is identified by its offset (the file whose bytes    *)
(* are pairwise distinct), so a body is a sequence of chunks, each the     *)
(* inclusive interval of offsets it carries.  Header values are sequences  *)
(* of one-character strings, parsed and formatted as the code does.        *)
(***************************************************************************)
EXTENDS Integers, Sequences, FiniteSets, TLC

VARIABLES
    \* ---- the /stream route (SpecStream)
    fileSize,        \* os.path.getsize(file_path)
    file_type,       \* the media directory the file was found in, or None
    pc,              \* "idle" | "streaming" | "done"
    range_header,    \* request.headers.get('Range', None)
    byte_start,      \* closure variables of generate()
    byte_end,
    content_length,
    status_code,     \* the response: status, two headers, body so far
    hContentLength,
    hContentRange,
    fpos,            \* file cursor of the generator's handle
    remaining,
    body,
    path,            \* which code path served the request
    covered,         \* client: bytes [0, covered) assembled so far
    assembled,
    \* ---- the token table (SpecToken)
    streaming_tokens,
    now,             \* time.time()
    ticks,           \* number of clock advances so far
    issued,          \* history: token -> what generate_streaming_token bound
    lastCall,        \* history: the call that has just returned
    okCount,         \* history: per token, validations that returned True
                     \* (0, 1, or 2 for two and more)
    expiredOnce,     \* history: tokens a validation has found expired
    \* ---- the token table under threads (SpecTokenConc)
    table,           \* streaming_tokens shared by the threads
    tpc,             \* per thread: the statement it is at
    tlocal,          \* per thread: its local variables
    clock,           \* time.time()
    spawned,         \* number of calls started so far
    raised,          \* history: the exceptions calls have ended with
    \* ---- /stream behind login_required (SpecAuth)
    authReq,         \* the request: session, token presented, filename
    authStatus,      \* the status it was answered with, 0 before any
    \* ---- media files and their thumbnails (SpecThumb)
    media,           \* the media files that exist, by path
    thumbs,          \* per media path: the file at its thumbnail path
    handler,         \* the request being handled, and where it is
    gen,             \* the call of generate_thumbnail in progress
    records,         \* the 'thumbnail' field of the records of the scan
    invoked,         \* history: the call of generate_thumbnail in progress
    genOk,           \* history: paths a generation has returned True for
                     \* since their thumbnail was last removed
    \* ---- scans of one file by several threads (SpecThumbConc)
    sthumb,          \* the file at the thumbnail path of the media file
    spc,             \* per thread: the statement of scan_media_files it is at
    sgen,            \* per thread: its call of generate_thumbnail
    srec,            \* per thread: the 'thumbnail' field of its record
    \* ---- the media probe and its callers (SpecProbe)
    probeOut,        \* what the run of ffprobe gave
    probeResp,       \* the caller, and what it answered
    \* ---- the video directory and episode navigation (SpecSeries)
    library,         \* the files of the video directory, as a scan meets them
    navResp,         \* the latest navigation call, and what it gave
    \* ---- the functions of file names (SpecEpisodeInfo, SpecNaturalSort)
    nameCall         \* the latest call, its arguments and what it gave

streamVars == <<fileSize, file_type, pc, range_header, byte_start, byte_end,
                content_length, status_code, hContentLength, hContentRange,
                fpos, remaining, body, path, covered, assembled>>
tokenVars  == <<streaming_tokens, now, ticks, issued, lastCall, okCount,
                expiredOnce>>
concVars   == <<table, tpc, tlocal, clock, spawned, raised>>
authVars   == <<authReq, authStatus>>
thumbVars  == <<media, thumbs, handler, gen, records, invoked, genOk>>
scanVars   == <<sthumb, spc, sgen, srec>>
probeVars  == <<probeOut, probeResp>>
seriesVars == <<library, navResp>>
nameVars   == <<nameCall>>
extraVars  == <<authVars, thumbVars, scanVars, probeVars, seriesVars,
                nameVars>>
vars       == <<streamVars, tokenVars, concVars, extraVars>>

\* what the actions of one specification leave alone
notStream == <<tokenVars, concVars, extraVars>>
notToken  == <<streamVars, concVars, extraVars>>
notConc   == <<streamVars, tokenVars, extraVars>>
notAuth   == <<streamVars, concVars, thumbVars, scanVars, probeVars,
               seriesVars,
               nameVars>>
notThumb  == <<streamVars, tokenVars, concVars, authVars, scanVars,
               probeVars, seriesVars,
               nameVars>>
notScan   == <<streamVars, tokenVars, concVars, authVars, thumbVars,
               probeVars, seriesVars,
               nameVars>>
notProbe  == <<streamVars, tokenVars, concVars, authVars, thumbVars,
               scanVars, seriesVars,
               nameVars>>
notSeries == <<streamVars, tokenVars, concVars, authVars, thumbVars,
               scanVars, probeVars,
               nameVars>>
notNames  == <<streamVars, tokenVars, concVars, authVars, thumbVars,
               scanVars, probeVars, seriesVars>>

---------------------------------------------------------------------------
(* Characters and decimal text                                             *)

None == "None"

Digits == <<"0", "1", "2", "3", "4", "5", "6", "7", "8", "9">>

\* [0-9]
IsDigit(c) == \E d \in 1..10 : Digits[d] = c

\* a decimal digit outside ASCII, the character ARABIC-INDIC DIGIT THREE:
\* str.isdigit() is true of it, \d matches it, int() reads it as 3, and
\* [0-9] does not match it
ArabicThree == "U+0663"

\* str.isdigit() of one character, and \d
IsDecimal(c) == IsDigit(c) \/ c = ArabicThree

\* int(c)
DigitValue(c) ==
    IF c = ArabicThree THEN 3
    ELSE (CHOOSE d \in 1..10 : Digits[d] = c) - 1

\* str(n) for n >= 0
RECURSIVE Dec(_)
Dec(n) == IF n < 10 THEN <<Digits[n + 1]>>
          ELSE Dec(n \div 10) \o <<Digits[(n % 10) + 1]>>

\* str(n) as an f-string or str() renders an int
Str(n) == IF n < 0 THEN <<"-">> \o Dec(-n) ELSE Dec(n)

\* int(s) for a non-empty run of digits
RECURSIVE IntOf(_)
IntOf(s) == IF Len(s) = 0 THEN 0
            ELSE 10 * IntOf(SubSeq(s, 1, Len(s) - 1)) + DigitValue(s[Len(s)])

Min(a, b) == IF a < b THEN a ELSE b

Max(a, b) == IF a > b THEN a ELSE b

---------------------------------------------------------------------------
(* Config                                                                  *)

\* Config.CHUNK_SIZE = 8192 * 4
CHUNK_SIZE == 32768

\* Config.STREAM_TOKEN_EXPIRY, seconds
STREAM_TOKEN_EXPIRY == 3600

---------------------------------------------------------------------------
(* The Range header, lines 961-968                                         *)

\* request.headers.get('Range', None): absent, or the header's text
NoHeader == [present |-> FALSE, text |-> <<>>]

Header(txt) == [present |-> TRUE, text |-> txt]

\* Python truth of range_header: None and '' are both false
Truthy(h) == h.present /\ h.text # <<>>

BytesEq == <<"b", "y", "t", "e", "s", "=">>

\* length of the longest run of digits of h that starts at index i
RECURSIVE DigitRun(_, _)
DigitRun(h, i) == IF i <= Len(h) /\ IsDigit(h[i]) THEN 1 + DigitRun(h, i + 1)
                  ELSE 0

\* the pattern matches with its first character at index i: the literal
\* 'bytes=', a greedy non-empty digit run, and '-' right after the run
MatchAt(h, i) ==
    /\ i + 5 <= Len(h)
    /\ SubSeq(h, i, i + 5) = BytesEq
    /\ DigitRun(h, i + 6) >= 1
    /\ i + 6 + DigitRun(h, i + 6) <= Len(h)
    /\ h[i + 6 + DigitRun(h, i + 6)] = "-"

\* re.search: the leftmost match, its groups 1 and 2 (group 2 greedy, maybe '')
ReSearch(h) ==
    IF \E i \in 1..Len(h) : MatchAt(h, i)
    THEN LET i == CHOOSE k \in 1..Len(h) :
                      MatchAt(h, k) /\ \A m \in 1..(k - 1) : ~MatchAt(h, m)
             d == i + 6 + DigitRun(h, i + 6)
         IN  [matched |-> TRUE,
              g1 |-> SubSeq(h, i + 6, d - 1),
              g2 |-> SubSeq(h, d + 1, d + DigitRun(h, d + 1))]
    ELSE [matched |-> FALSE, g1 |-> <<>>, g2 |-> <<>>]

\* ParseRange without line 970: the end is taken as the client gave it
ParseRangeNoClamp(size, h) ==
    LET m  == IF Truthy(h) THEN ReSearch(h.text)
              ELSE [matched |-> FALSE, g1 |-> <<>>, g2 |-> <<>>]
        bs == IF m.matched THEN IntOf(m.g1) ELSE 0
        be == IF m.matched /\ m.g2 # <<>> THEN IntOf(m.g2) ELSE size - 1
    IN  [byte_start |-> bs, byte_end |-> be, content_length |-> be - bs + 1]

\* lines 957-971: byte_start, byte_end and content_length for a file of
\* `size` bytes and the request's Range header
ParseRange(size, h) ==
    LET m  == IF Truthy(h) THEN ReSearch(h.text)
              ELSE [matched |-> FALSE, g1 |-> <<>>, g2 |-> <<>>]
        bs == IF m.matched THEN IntOf(m.g1) ELSE 0
        be == IF m.matched /\ m.g2 # <<>> THEN IntOf(m.g2) ELSE size - 1
        ce == Min(be, size - 1)
    IN  [byte_start |-> bs, byte_end |-> ce, content_length |-> ce - bs + 1]

\* StatusFor with every response of the range path a partial one
StatusAlwaysPartial(h) == 206

\* lines 1066-1071: a truthy Range header makes the response a 206
StatusFor(h) == IF Truthy(h) THEN 206 ELSE 200

NoContentRange == <<>>

\* f'bytes {byte_start}-{byte_end}/{size}'
ContentRangeText(bs, be, size) ==
    <<"b", "y", "t", "e", "s", " ">> \o Str(bs) \o <<"-">> \o Str(be)
        \o <<"/">> \o Str(size)

ContentRangeFor(h, bs, be, size) ==
    IF Truthy(h) THEN ContentRangeText(bs, be, size) ELSE NoContentRange

---------------------------------------------------------------------------
(* Requests the model issues                                               *)

\* file sizes: empty, one byte, the 1000 bytes of the documented examples,
\* and a file of more than two chunks
Sizes == {0, 1, 1000, 2 * CHUNK_SIZE + 4464}

\* offsets a client asks for
Offsets == {0, 99, 100, 199, 200, 900, 999, 1000, 2000, CHUNK_SIZE,
            2 * CHUNK_SIZE + 4463}

\* 'bytes=s-e' and 'bytes=s-'
RangeText(s, e) == BytesEq \o Dec(s) \o <<"-">> \o Dec(e)

RangeFromText(s) == BytesEq \o Dec(s) \o <<"-">>

\* header texts whose start is not numeric, so the pattern does not match
Malformed ==
    { BytesEq \o <<"-", "5", "0", "0">>,
      BytesEq \o <<"a", "b", "c", "-", "5">>,
      BytesEq,
      BytesEq \o <<" ", "5", "-", "9">>,
      <<"B", "y", "t", "e", "s", "=", "0", "-", "5">>,
      <<"i", "t", "e", "m", "s", "=", "0", "-", "5">>,
      <<"1", "0", "0", "-", "1", "9", "9">> }

\* other texts the pattern is searched in: a prefix before 'bytes=', a second
\* range after the first, leading zeros
Odd ==
    { <<"x">> \o RangeText(100, 199),
      RangeText(100, 199) \o <<",">> \o <<"3", "0", "0", "-", "4", "0", "0">>,
      BytesEq \o <<"0", "0", "7", "-", "0", "9">> }

Headers ==
    {NoHeader, Header(<<>>)}
      \cup { Header(RangeText(s, e)) : s \in Offsets, e \in Offsets }
      \cup { Header(RangeFromText(s)) : s \in Offsets }
      \cup { Header(t) : t \in Malformed \cup Odd }

---------------------------------------------------------------------------
(* The /stream route                                                       *)

MediaDirs == {"image", "video", "audio"}

\* what a body carries: its chunks with neighbouring intervals joined
RECURSIVE Coalesce(_)
Coalesce(chunks) ==
    IF Len(chunks) <= 1 THEN chunks
    ELSE LET rest == Coalesce(Tail(chunks))
             c    == Head(chunks)
         IN  IF Head(rest).from = c.to + 1
             THEN <<[from |-> c.from, to |-> Head(rest).to]>> \o Tail(rest)
             ELSE <<c>> \o rest

\* the bytes [a, b] of the file, as a body carries them (nothing when a > b)
Bytes(a, b) == IF a <= b THEN <<[from |-> a, to |-> b]>> ELSE <<>>

RECURSIVE BodyLen(_)
BodyLen(chunks) ==
    IF chunks = <<>> THEN 0
    ELSE (Head(chunks).to - Head(chunks).from + 1) + BodyLen(Tail(chunks))

StreamInit ==
    /\ \/ file_type \in MediaDirs /\ fileSize \in Sizes
       \/ file_type = None /\ fileSize = 0
    /\ pc = "idle"
    /\ range_header = NoHeader
    /\ byte_start = 0 /\ byte_end = 0 /\ content_length = 0
    /\ status_code = 0
    /\ hContentLength = <<>> /\ hContentRange = NoContentRange
    /\ fpos = 0 /\ remaining = 0
    /\ body = <<>>
    /\ path = None
    /\ covered = 0 /\ assembled = <<>>

\* the state the route is left in by the specifications that do not use it
StreamParked ==
    /\ file_type = None /\ fileSize = 0
    /\ pc = "idle"
    /\ range_header = NoHeader
    /\ byte_start = 0 /\ byte_end = 0 /\ content_length = 0
    /\ status_code = 0
    /\ hContentLength = <<>> /\ hContentRange = NoContentRange
    /\ fpos = 0 /\ remaining = 0
    /\ body = <<>>
    /\ path = None
    /\ covered = 0 /\ assembled = <<>>

\* lines 1468-1469: no media directory holds the file
Abort404 ==
    /\ status_code' = 404
    /\ hContentLength' = <<>> /\ hContentRange' = NoContentRange
    /\ body' = <<>>
    /\ path' = "abort"
    /\ pc' = "done"
    /\ UNCHANGED <<byte_start, byte_end, content_length, fpos, remaining>>

\* line 1488: flask.send_file(file_path), the whole file with status 200
SendFile ==
    /\ status_code' = 200
    /\ hContentLength' = Str(fileSize)
    /\ hContentRange' = NoContentRange
    /\ body' = Bytes(0, fileSize - 1)
    /\ path' = "send_file"
    /\ pc' = "done"
    /\ UNCHANGED <<byte_start, byte_end, content_length, fpos, remaining>>

\* lines 954-1083: the range, the headers, and generate() opened and
\* positioned by f.seek(byte_start) with remaining = content_length
StreamFileWithRanges(h) ==
    \E r \in {ParseRange(fileSize, h)} :
        /\ byte_start' = r.byte_start
        /\ byte_end' = r.byte_end
        /\ content_length' = r.content_length
        /\ status_code' = StatusFor(h)
        /\ hContentLength' = Str(r.content_length)
        /\ hContentRange' =
               ContentRangeFor(h, r.byte_start, r.byte_end, fileSize)
        /\ fpos' = r.byte_start
        /\ remaining' = r.content_length
        /\ body' = <<>>
        /\ path' = "ranges"
        /\ pc' = "streaming"

\* lines 1450-1490: GET /stream/<filename>
StreamFile ==
    /\ pc = "idle"
    /\ \E h \in Headers :
          /\ range_header' = h
          /\ IF file_type = None THEN Abort404
             ELSE IF ~Truthy(h) /\ file_type # "video" THEN SendFile
             ELSE StreamFileWithRanges(h)
    /\ UNCHANGED <<fileSize, file_type, covered, assembled>>
    /\ UNCHANGED notStream

\* f.read(n) with the cursor at pos: the n bytes from pos, fewer at the end
\* of the file, none at or beyond it
ReadLen(pos, n) == Max(0, Min(n, fileSize - pos))

\* GenerateChunk reading a whole chunk every turn: f.read(Config.CHUNK_SIZE)
\* in place of lines 1049-1050
GenerateChunkUncapped ==
    /\ pc = "streaming"
    /\ LET got == ReadLen(fpos, CHUNK_SIZE)
       IN  IF remaining > 0 /\ got > 0
           THEN /\ remaining' = remaining - got
                /\ fpos' = fpos + got
                /\ body' = Append(body, [from |-> fpos, to |-> fpos + got - 1])
                /\ pc' = pc
           ELSE /\ pc' = "done"
                /\ UNCHANGED <<remaining, fpos, body>>
    /\ UNCHANGED <<fileSize, file_type, range_header, byte_start, byte_end,
                   content_length, status_code, hContentLength, hContentRange,
                   path, covered, assembled>>
    /\ UNCHANGED notStream

\* lines 1048-1054: one turn of the generator's loop, or its end
GenerateChunk ==
    /\ pc = "streaming"
    /\ LET chunk_size == Min(CHUNK_SIZE, remaining)
           got        == ReadLen(fpos, chunk_size)
       IN  IF remaining > 0 /\ got > 0
           THEN /\ remaining' = remaining - got
                /\ fpos' = fpos + got
                /\ body' = Append(body, [from |-> fpos, to |-> fpos + got - 1])
                /\ pc' = pc
           ELSE /\ pc' = "done"
                /\ UNCHANGED <<remaining, fpos, body>>
    /\ UNCHANGED <<fileSize, file_type, range_header, byte_start, byte_end,
                   content_length, status_code, hContentLength, hContentRange,
                   path, covered, assembled>>
    /\ UNCHANGED notStream

\* the client asked for bytes covered..e, the next range of its split of
\* [0, fileSize-1] ('bytes=covered-' asks for the last one)
IsNextRange(e) ==
    /\ covered <= e /\ e <= fileSize - 1
    /\ \/ range_header = Header(RangeText(covered, e))
       \/ e = fileSize - 1 /\ range_header = Header(RangeFromText(covered))

\* the client takes the finished response, and the request is over; a
\* response for the next range of its split is appended to what the client
\* has assembled
ClientReceive ==
    /\ pc = "done"
    /\ IF \E e \in Offsets : IsNextRange(e)
       THEN LET e == CHOOSE x \in Offsets : IsNextRange(x)
            IN  /\ assembled' = assembled \o body
                /\ covered' = e + 1
       ELSE UNCHANGED <<covered, assembled>>
    /\ pc' = "idle"
    /\ range_header' = NoHeader
    /\ byte_start' = 0 /\ byte_end' = 0 /\ content_length' = 0
    /\ status_code' = 0
    /\ hContentLength' = <<>> /\ hContentRange' = NoContentRange
    /\ fpos' = 0 /\ remaining' = 0
    /\ body' = <<>>
    /\ path' = None
    /\ UNCHANGED <<fileSize, file_type>>
    /\ UNCHANGED notStream

---------------------------------------------------------------------------
(* The streaming token table, lines 72 and 578-621                         *)

\* number of tokens generate_streaming_token issues in a behaviour
MaxTokens == 2

\* number of times the clock advances in a behaviour
MaxTicks == 1

\* secrets.token_urlsafe(32): 256 random bits, taken never to repeat; the
\* k-th token issued is named k
Tokens == 1..MaxTokens

Filenames == {"a.mp4", "b.mkv"}

Users == {"alice"}

\* the clock advances by a second, by a whole token lifetime (a token issued
\* at the earlier time is then at its expiry time, not past it), or by a
\* second more than that
TickSteps == {1, STREAM_TOKEN_EXPIRY, STREAM_TOKEN_EXPIRY + 1}

NoCall == [op |-> None, token |-> 0, filename |-> None, result |-> None,
           present |-> FALSE, purged |-> {}]

\* line 613 (and 599): data['expires'] < current_time
Expired(data, current_time) == data.expires < current_time

\* del tbl[token]
Del(tbl, token) == [k \in (DOMAIN tbl) \ {token} |-> tbl[k]]

\* tbl[token] = data
Put(tbl, token, data) ==
    [k \in (DOMAIN tbl) \cup {token} |-> IF k = token THEN data ELSE tbl[k]]

\* lines 595-602: the table after cleanup_expired_tokens() at current_time
CleanupExpired(tbl, current_time) ==
    LET expired_tokens ==
            {token \in DOMAIN tbl : Expired(tbl[token], current_time)}
    IN  [k \in (DOMAIN tbl) \ expired_tokens |-> tbl[k]]

\* GenerateTable without line 591: the new token is stored and nothing purged
GenerateTableNoCleanup(tbl, token, filename, user_id, t) ==
    Put(tbl, token, [filename |-> filename, user_id |-> user_id,
                     expires |-> t + STREAM_TOKEN_EXPIRY, created |-> t])

\* lines 578-593: the table after generate_streaming_token, which stores the
\* new token and then cleans up
GenerateTable(tbl, token, filename, user_id, t) ==
    CleanupExpired(
        Put(tbl, token, [filename |-> filename, user_id |-> user_id,
                         expires |-> t + STREAM_TOKEN_EXPIRY, created |-> t]),
        t)

\* ValidateResult without lines 618-619: any filename passes
ValidateResultAnyFile(tbl, token, filename, current_time) ==
    IF token \notin DOMAIN tbl THEN FALSE
    ELSE IF Expired(tbl[token], current_time) THEN FALSE
    ELSE TRUE

\* lines 604-621: what validate_streaming_token returns
ValidateResult(tbl, token, filename, current_time) ==
    IF token \notin DOMAIN tbl THEN FALSE
    ELSE IF Expired(tbl[token], current_time) THEN FALSE
    ELSE IF tbl[token].filename # filename THEN FALSE
    ELSE TRUE

\* ValidateTable with the clean-up of every expired token in place of the
\* del of line 614
ValidateTableSweeping(tbl, token, current_time) ==
    IF token \in DOMAIN tbl /\ Expired(tbl[token], current_time)
    THEN CleanupExpired(tbl, current_time)
    ELSE tbl

\* ValidateTable of a single-use token: the del of line 614 done for every
\* token found, expired or not
ValidateTableSingleUse(tbl, token, current_time) ==
    IF token \in DOMAIN tbl THEN Del(tbl, token) ELSE tbl

\* lines 606-615: the table after validate_streaming_token
ValidateTable(tbl, token, current_time) ==
    IF token \in DOMAIN tbl /\ Expired(tbl[token], current_time)
    THEN Del(tbl, token)
    ELSE tbl

TokenInit ==
    /\ streaming_tokens = <<>>
    /\ now = 0
    /\ ticks = 0
    /\ issued = <<>>
    /\ lastCall = NoCall
    /\ okCount = [k \in Tokens |-> 0]
    /\ expiredOnce = {}

\* time passes between calls
Tick ==
    /\ ticks < MaxTicks
    /\ \E d \in TickSteps : now' = now + d
    /\ ticks' = ticks + 1
    /\ lastCall' = NoCall
    /\ UNCHANGED <<streaming_tokens, issued, okCount, expiredOnce>>
    /\ UNCHANGED notToken

\* generate_streaming_token(filename, user_id)
Generate ==
    /\ Cardinality(DOMAIN issued) < MaxTokens
    /\ \E filename \in Filenames, user_id \in Users :
          LET token == Cardinality(DOMAIN issued) + 1
          IN  /\ streaming_tokens' =
                     GenerateTable(streaming_tokens, token, filename,
                                   user_id, now)
              /\ issued' = Put(issued, token,
                               [filename |-> filename,
                                expires |-> now + STREAM_TOKEN_EXPIRY])
              /\ lastCall' = [op |-> "generate", token |-> token,
                              filename |-> filename, result |-> token,
                              present |-> FALSE,
                              purged |-> (DOMAIN streaming_tokens)
                                            \ DOMAIN streaming_tokens']
    /\ UNCHANGED <<now, ticks, okCount, expiredOnce>>
    /\ UNCHANGED notToken

\* cleanup_expired_tokens() called on its own
Cleanup ==
    /\ streaming_tokens' = CleanupExpired(streaming_tokens, now)
    /\ lastCall' = [op |-> "cleanup", token |-> 0, filename |-> None,
                    result |-> None, present |-> FALSE,
                    purged |-> (DOMAIN streaming_tokens)
                                  \ DOMAIN streaming_tokens']
    /\ UNCHANGED <<now, ticks, issued, okCount, expiredOnce>>
    /\ UNCHANGED notToken

\* validate_streaming_token(token, filename)
Validate ==
    /\ \E token \in Tokens, filename \in Filenames :
          LET result == ValidateResult(streaming_tokens, token, filename, now)
          IN  /\ streaming_tokens' =
                     ValidateTable(streaming_tokens, token, now)
              /\ lastCall' = [op |-> "validate", token |-> token,
                              filename |-> filename, result |-> result,
                              present |-> token \in DOMAIN streaming_tokens,
                              purged |-> (DOMAIN streaming_tokens)
                                            \ DOMAIN streaming_tokens']
              /\ okCount' =
                     IF result
                     THEN [okCount EXCEPT ![token] = Min(@ + 1, 2)]
                     ELSE okCount
              /\ expiredOnce' =
                     IF /\ token \in DOMAIN streaming_tokens
                        /\ Expired(streaming_tokens[token], now)
                     THEN expiredOnce \cup {token}
                     ELSE expiredOnce
    /\ UNCHANGED <<now, ticks, issued>>
    /\ UNCHANGED notToken

---------------------------------------------------------------------------
(* The token table under app.run(threaded=True), line 2151: every request  *)
(* runs in a thread of its own, the table is the module-level dict of line *)
(* 72 and no lock guards it.  A thread may be preempted between any two    *)
(* statements, and between two turns of a loop.                            *)

\* request threads
NumThreads == 2

\* calls started in a behaviour
MaxCalls == 3

\* times the clock advances in a behaviour
MaxConcTicks == 1

Threads == 1..NumThreads

ConcTokens == 1..MaxCalls

NoLocal == [token |-> 0, filename |-> None, expiry |-> 0, current_time |-> 0,
            token_data |-> None, it_used |-> 0, visited |-> {},
            expired_tokens |-> {}]

ConcInit ==
    /\ table = <<>>
    /\ tpc = [th \in Threads |-> "idle"]
    /\ tlocal = [th \in Threads |-> NoLocal]
    /\ clock = 0
    /\ spawned = 0
    /\ raised = {}

\* a call ends: the thread is free for the next request
Return(th) ==
    /\ tpc' = [tpc EXCEPT ![th] = "idle"]
    /\ tlocal' = [tlocal EXCEPT ![th] = NoLocal]

\* a call ends with an exception
Raise(th, exc) ==
    /\ Return(th)
    /\ raised' = raised \cup {exc}

\* between requests, enough time passes for every token issued so far to
\* expire (the time a call itself takes is nothing against a token lifetime)
ConcTick ==
    /\ \A th \in Threads : tpc[th] = "idle"
    /\ clock < MaxConcTicks * (STREAM_TOKEN_EXPIRY + 1)
    /\ clock' = clock + STREAM_TOKEN_EXPIRY + 1
    /\ UNCHANGED <<table, tpc, tlocal, spawned, raised>>
    /\ UNCHANGED notConc

\* lines 580-581: generate_streaming_token draws the token and the expiry
GenBegin(th) ==
    /\ tpc[th] = "idle" /\ spawned < MaxCalls
    /\ \E filename \in Filenames :
          tlocal' = [tlocal EXCEPT ![th] =
                        [NoLocal EXCEPT !.token = spawned + 1,
                                        !.filename = filename,
                                        !.expiry = clock + STREAM_TOKEN_EXPIRY]]
    /\ tpc' = [tpc EXCEPT ![th] = "g583"]
    /\ spawned' = spawned + 1
    /\ UNCHANGED <<table, clock, raised>>
    /\ UNCHANGED notConc

\* lines 583-588: streaming_tokens[token] = {...}
GenStore(th) ==
    /\ tpc[th] = "g583"
    /\ table' = Put(table, tlocal[th].token,
                    [filename |-> tlocal[th].filename, user_id |-> "alice",
                     expires |-> tlocal[th].expiry, created |-> clock])
    /\ tpc' = [tpc EXCEPT ![th] = "c597"]
    /\ UNCHANGED <<tlocal, clock, spawned, raised>>
    /\ UNCHANGED notConc

\* cleanup_expired_tokens() called on its own
CleanupBegin(th) ==
    /\ tpc[th] = "idle" /\ spawned < MaxCalls
    /\ tpc' = [tpc EXCEPT ![th] = "c597"]
    /\ spawned' = spawned + 1
    /\ UNCHANGED <<table, tlocal, clock, raised>>
    /\ UNCHANGED notConc

\* lines 597-598: current_time, and the iterator over streaming_tokens.items()
\* which remembers the size of the dict
CleanupIter(th) ==
    /\ tpc[th] = "c597"
    /\ tlocal' = [tlocal EXCEPT ![th].current_time = clock,
                                ![th].it_used = Cardinality(DOMAIN table),
                                ![th].visited = {},
                                ![th].expired_tokens = {}]
    /\ tpc' = [tpc EXCEPT ![th] = "c598"]
    /\ UNCHANGED <<table, clock, spawned, raised>>
    /\ UNCHANGED notConc

\* lines 598-599: one turn of the comprehension. The dict iterator raises
\* RuntimeError (dictionary changed size during iteration) when the dict no
\* longer has the size it had when the iterator was made
CleanupNext(th) ==
    /\ tpc[th] = "c598"
    /\ LET l    == tlocal[th]
           left == (DOMAIN table) \ l.visited
       IN  IF Cardinality(DOMAIN table) # l.it_used
           THEN Raise(th, "RuntimeError")
           ELSE /\ IF left = {}
                   THEN /\ tpc' = [tpc EXCEPT ![th] = "c601"]
                        /\ UNCHANGED tlocal
                   ELSE /\ \E k \in left :
                              tlocal' = [tlocal EXCEPT
                                  ![th].visited = @ \cup {k},
                                  ![th].expired_tokens =
                                      IF Expired(table[k], l.current_time)
                                      THEN @ \cup {k} ELSE @]
                        /\ UNCHANGED tpc
                /\ UNCHANGED raised
    /\ UNCHANGED <<table, clock, spawned>>
    /\ UNCHANGED notConc

\* lines 601-602: one turn of the loop, del streaming_tokens[token], which
\* raises KeyError when the token is no longer in the dict
CleanupDel(th) ==
    /\ tpc[th] = "c601"
    /\ LET l == tlocal[th]
       IN  IF l.expired_tokens = {}
           THEN Return(th) /\ UNCHANGED <<table, raised>>
           ELSE \E k \in l.expired_tokens :
                   IF k \notin DOMAIN table
                   THEN Raise(th, "KeyError") /\ UNCHANGED table
                   ELSE /\ table' = Del(table, k)
                        /\ tlocal' = [tlocal EXCEPT
                                         ![th].expired_tokens = @ \ {k}]
                        /\ UNCHANGED <<tpc, raised>>
    /\ UNCHANGED <<clock, spawned>>
    /\ UNCHANGED notConc

\* validate_streaming_token(token, filename) is called
ValidateBegin(th) ==
    /\ tpc[th] = "idle" /\ spawned < MaxCalls
    /\ \E token \in ConcTokens, filename \in Filenames :
          tlocal' = [tlocal EXCEPT ![th] =
                        [NoLocal EXCEPT !.token = token,
                                        !.filename = filename]]
    /\ tpc' = [tpc EXCEPT ![th] = "v606"]
    /\ spawned' = spawned + 1
    /\ UNCHANGED <<table, clock, raised>>
    /\ UNCHANGED notConc

\* lines 606-607: if token not in streaming_tokens: return False
ValidateLookup(th) ==
    /\ tpc[th] = "v606"
    /\ IF tlocal[th].token \notin DOMAIN table
       THEN Return(th)
       ELSE /\ tpc' = [tpc EXCEPT ![th] = "v609"]
            /\ UNCHANGED tlocal
    /\ UNCHANGED <<table, clock, spawned, raised>>
    /\ UNCHANGED notConc

\* lines 609-610: token_data = streaming_tokens[token], which raises KeyError
\* when the token is no longer in the dict; then current_time
ValidateFetch(th) ==
    /\ tpc[th] = "v609"
    /\ IF tlocal[th].token \notin DOMAIN table
       THEN Raise(th, "KeyError")
       ELSE /\ tlocal' = [tlocal EXCEPT
                             ![th].token_data = table[tlocal[th].token],
                             ![th].current_time = clock]
            /\ tpc' = [tpc EXCEPT ![th] = "v613"]
            /\ UNCHANGED raised
    /\ UNCHANGED <<table, clock, spawned>>
    /\ UNCHANGED notConc

\* lines 613-621: the expiry check with its del, the filename check, return
ValidateCheck(th) ==
    /\ tpc[th] = "v613"
    /\ LET l == tlocal[th]
       IN  IF Expired(l.token_data, l.current_time)
           THEN IF l.token \notin DOMAIN table
                THEN Raise(th, "KeyError") /\ UNCHANGED table
                ELSE /\ table' = Del(table, l.token)
                     /\ Return(th)
                     /\ UNCHANGED raised
           ELSE Return(th) /\ UNCHANGED <<table, raised>>
    /\ UNCHANGED <<clock, spawned>>
    /\ UNCHANGED notConc

---------------------------------------------------------------------------
(* /stream behind login_required, lines 1450-1490.  The decorator of line  *)
(* 1451 is the only authentication of the route: no statement of the view  *)
(* reads a token from the request or calls validate_streaming_token.       *)

\* token 0 stands for a request that presents no token
NoToken == 0

\* no response yet
NoStatus == 0

NoRequest == [session |-> FALSE, token |-> NoToken, filename |-> None,
              tokenValid |-> FALSE]

AuthInit ==
    /\ authReq = NoRequest
    /\ authStatus = NoStatus

\* lines 1451-1490: the status of GET /stream/<filename>.  login_required
\* sends a request without a login session to login_manager.unauthorized(),
\* which redirects to the login view of line 98; the view answers 404 for a
\* file it does not find and else streams it (the files here are videos)
StreamStatus(session, exists, h) ==
    IF ~session THEN 302
    ELSE IF ~exists THEN 404
    ELSE StatusFor(h)

\* GET /stream/<filename>, with or without a login session, with or without a
\* token; tokenValid records what validate_streaming_token would have
\* returned for the token presented, had the view called it
StreamRequest ==
    /\ \E session \in BOOLEAN, token \in {NoToken} \cup Tokens,
          filename \in Filenames, exists \in BOOLEAN,
          h \in {NoHeader, Header(RangeText(0, 99))} :
          /\ authReq' = [session |-> session, token |-> token,
                         filename |-> filename,
                         tokenValid |->
                             /\ token # NoToken
                             /\ ValidateResult(streaming_tokens, token,
                                               filename, now)]
          /\ authStatus' = StreamStatus(session, exists, h)
    /\ UNCHANGED tokenVars
    /\ UNCHANGED notAuth

---------------------------------------------------------------------------
(* Thumbnails, lines 432-512.  The thumbnail of a media file lives at the  *)
(* path made of the md5 of the file's path (lines 453-454), taken here to  *)
(* be different for different paths, so the thumbnail files are indexed by *)
(* media path.                                                             *)

\* the media paths: a video at the root of the video directory, the same
\* file name in a folder of it, and an image
Paths == {"video/a.mp4", "video/f/a.mp4", "image/i.jpg"}

\* allowed_file(item)[1]
TypeOf(p) == IF p = "image/i.jpg" THEN "image" ELSE "video"

\* the file at a thumbnail path: none, a file of zero bytes, a file that
\* has bytes but is no complete picture, a picture
ThumbStates == {"absent", "empty", "partial", "frame"}

\* os.path.exists(thumbnail_path)
Exists(f) == f # "absent"

\* os.path.getsize(thumbnail_path) > 0
NonEmpty(f) == f \in {"partial", "frame"}

\* line 479: the seconds into the video that are tried, in this order
Timestamps == <<5, 1, 10, 30>>

\* what one run of ffmpeg (line 490) can do: exit with a code having
\* written a frame, nothing ("same": the file at the destination is as it
\* was), or a file of zero bytes or part of a picture; or exceed the
\* timeout, which raises
Outcomes ==
    {[raises |-> FALSE, rc |-> 0, file |-> "frame"],
     [raises |-> FALSE, rc |-> 0, file |-> "same"],
     [raises |-> FALSE, rc |-> 0, file |-> "empty"],
     [raises |-> FALSE, rc |-> 1, file |-> "same"],
     [raises |-> FALSE, rc |-> 1, file |-> "empty"],
     [raises |-> FALSE, rc |-> 1, file |-> "partial"],
     [raises |-> TRUE,  rc |-> 1, file |-> "same"],
     [raises |-> TRUE,  rc |-> 1, file |-> "partial"]}

\* what lines 503-507 can do to an image: save the thumbnail, or raise
\* before writing or while writing
ImageOutcomes ==
    {[raises |-> FALSE, rc |-> 0, file |-> "frame"],
     [raises |-> TRUE,  rc |-> 1, file |-> "same"],
     [raises |-> TRUE,  rc |-> 1, file |-> "partial"]}

FileAfter(before, o) == IF o.file = "same" THEN before ELSE o.file

\* AttemptSucceeds without the tests of the output file
AttemptSucceedsExitOnly(rc, file) == rc = 0

\* line 491
AttemptSucceeds(rc, file) == rc = 0 /\ Exists(file) /\ NonEmpty(file)

NoAttempt == [rc |-> 0, raises |-> FALSE, file |-> "absent"]

NoGen == [active |-> FALSE, path |-> None, caller |-> None, next |-> 1,
          log |-> <<>>, last |-> NoAttempt, result |-> None]

\* the call of generate_thumbnail for path p, none of its statements run
\* yet; its result is None until it returns "True" or "False"
StartGen(p, caller) ==
    [active |-> TRUE, path |-> p, caller |-> caller, next |-> 1,
     log |-> <<>>, last |-> NoAttempt, result |-> None]

\* AttemptStep with an exception treated as a failed attempt: the loop goes
\* on to the next timestamp
AttemptStepPastException(g, before, o) ==
    LET after == FileAfter(before, o)
        ok    == ~o.raises /\ AttemptSucceeds(o.rc, after)
        g1    == [g EXCEPT
                     !.log  = Append(@, [ts |-> Timestamps[g.next],
                                         ok |-> ok]),
                     !.last = [rc |-> o.rc, raises |-> o.raises,
                               file |-> after]]
    IN  IF ok THEN [g1 EXCEPT !.result = "True"]
        ELSE IF g.next = Len(Timestamps) THEN [g1 EXCEPT !.result = "False"]
        ELSE [g1 EXCEPT !.next = @ + 1]

\* lines 481-497: the call after the attempt at timestamp g.next has had
\* outcome o on the destination file; an exception ends the call with False
\* (line 495), a success with True, a failure goes on to the next timestamp
\* and ends the call with False after the last
AttemptStep(g, before, o) ==
    LET after == FileAfter(before, o)
        ok    == ~o.raises /\ AttemptSucceeds(o.rc, after)
        g1    == [g EXCEPT
                     !.log  = Append(@, [ts |-> Timestamps[g.next],
                                         ok |-> ok]),
                     !.last = [rc |-> o.rc, raises |-> o.raises,
                               file |-> after]]
    IN  IF o.raises THEN [g1 EXCEPT !.result = "False"]
        ELSE IF ok THEN [g1 EXCEPT !.result = "True"]
        ELSE IF g.next = Len(Timestamps) THEN [g1 EXCEPT !.result = "False"]
        ELSE [g1 EXCEPT !.next = @ + 1]

\* lines 502-507 and 510-512: the call for an image
ImageStep(g, before, o) ==
    [g EXCEPT !.last = [rc |-> o.rc, raises |-> o.raises,
                        file |-> FileAfter(before, o)],
              !.result = IF o.raises THEN "False" ELSE "True"]

NoHandler == [op |-> "idle", phase |-> None, todo |-> {}, cur |-> None]

NoInvocation == [path |-> None, caller |-> None, existed |-> FALSE]

ThumbInit ==
    /\ media = {}
    /\ thumbs = [p \in Paths |-> "absent"]
    /\ handler = NoHandler
    /\ gen = NoGen
    /\ records = [p \in Paths |-> "NoRecord"]
    /\ invoked = NoInvocation
    /\ genOk = {}

\* a caller reaches its call of generate_thumbnail for the media file p
Invoke(p, caller) ==
    /\ gen' = StartGen(p, caller)
    /\ invoked' = [path |-> p, caller |-> caller,
                   existed |-> Exists(thumbs[p])]

\* POST /upload, lines 1302-1338, for one file of the form: the file is
\* saved at a path where no file is (a taken name gets a time stamp, which
\* is then the path) and its thumbnail generated
Upload(p) ==
    /\ handler.op = "idle"
    /\ p \notin media
    /\ media' = media \cup {p}
    /\ handler' = [NoHandler EXCEPT !.op = "upload", !.cur = p]
    /\ Invoke(p, "upload")
    /\ UNCHANGED <<thumbs, records, genOk>>
    /\ UNCHANGED notThumb

\* POST /api/upload, lines 1822-1839
ApiUpload(p) ==
    /\ handler.op = "idle"
    /\ p \notin media
    /\ media' = media \cup {p}
    /\ handler' = [NoHandler EXCEPT !.op = "api_upload", !.cur = p]
    /\ Invoke(p, "api_upload")
    /\ UNCHANGED <<thumbs, records, genOk>>
    /\ UNCHANGED notThumb

\* lines 1340-1367 and 1841-1852: the upload answers
UploadEnd ==
    /\ handler.op \in {"upload", "api_upload"}
    /\ gen.result # None
    /\ handler' = NoHandler
    /\ gen' = NoGen
    /\ invoked' = NoInvocation
    /\ UNCHANGED <<media, thumbs, records, genOk>>
    /\ UNCHANGED notThumb

\* scan_media_files(base_path), lines 432-441: a request (the gallery,
\* /api/files) lists the media directory
ScanBegin ==
    /\ handler.op = "idle"
    /\ handler' = [NoHandler EXCEPT !.op = "scan", !.phase = "scan",
                                    !.todo = media]
    /\ records' = [p \in Paths |-> "NoRecord"]
    /\ UNCHANGED <<media, thumbs, gen, invoked, genOk>>
    /\ UNCHANGED notThumb

\* line 465: the 'thumbnail' field of the record of the media file p
ThumbnailField(p) == IF Exists(thumbs[p]) THEN "thumbnail" ELSE None

\* lines 445-467 for the next item of the listing: a thumbnail that does
\* not exist is generated, and then the record is appended
ScanItem ==
    /\ handler.phase = "scan"
    /\ handler.cur = None
    /\ \E p \in handler.todo :
          IF ~Exists(thumbs[p])
          THEN /\ Invoke(p, "scan")
               /\ handler' = [handler EXCEPT !.cur = p]
               /\ UNCHANGED records
          ELSE /\ records' = [records EXCEPT ![p] = ThumbnailField(p)]
               /\ handler' = [handler EXCEPT !.todo = @ \ {p}]
               /\ UNCHANGED <<gen, invoked>>
    /\ UNCHANGED <<media, thumbs, genOk>>
    /\ UNCHANGED notThumb

\* lines 458-467 after generate_thumbnail has returned
ScanRecord ==
    /\ handler.phase = "scan"
    /\ handler.cur # None
    /\ gen.result # None
    /\ records' = [records EXCEPT ![handler.cur] =
                                      ThumbnailField(handler.cur)]
    /\ handler' = [handler EXCEPT !.todo = @ \ {handler.cur},
                                  !.cur = None]
    /\ gen' = NoGen
    /\ invoked' = NoInvocation
    /\ UNCHANGED <<media, thumbs, genOk>>
    /\ UNCHANGED notThumb

\* line 474: the listing is returned (and the records with it)
ScanEnd ==
    /\ handler.op = "scan"
    /\ handler.todo = {}
    /\ handler.cur = None
    /\ handler' = NoHandler
    /\ records' = [p \in Paths |-> "NoRecord"]
    /\ UNCHANGED <<media, thumbs, gen, invoked, genOk>>
    /\ UNCHANGED notThumb

\* POST /api/admin/generate-thumbnails, lines 1989-2002: an administrator
\* asks for all thumbnails anew; the files are first listed by
\* scan_media_files (the image and the video directory in turn, taken
\* together here)
RegenBegin ==
    /\ handler.op = "idle"
    /\ handler' = [NoHandler EXCEPT !.op = "regen", !.phase = "scan",
                                    !.todo = media]
    /\ records' = [p \in Paths |-> "NoRecord"]
    /\ UNCHANGED <<media, thumbs, gen, invoked, genOk>>
    /\ UNCHANGED notThumb

\* line 2004: the listing is complete, the loop over its records starts
RegenLoop ==
    /\ handler.op = "regen"
    /\ handler.phase = "scan"
    /\ handler.todo = {}
    /\ handler.cur = None
    /\ handler' = [handler EXCEPT
                       !.phase = "generate",
                       !.todo = {p \in Paths : records[p] # "NoRecord"}]
    /\ UNCHANGED <<media, thumbs, gen, records, invoked, genOk>>
    /\ UNCHANGED notThumb

\* lines 2005-2009: generate_thumbnail for the next record, whether or not
\* its thumbnail exists
RegenItem ==
    /\ handler.phase = "generate"
    /\ handler.cur = None
    /\ \E p \in handler.todo :
          /\ Invoke(p, "regenerate")
          /\ handler' = [handler EXCEPT !.cur = p]
    /\ UNCHANGED <<media, thumbs, records, genOk>>
    /\ UNCHANGED notThumb

\* lines 2009-2010 after generate_thumbnail has returned
RegenCount ==
    /\ handler.phase = "generate"
    /\ handler.cur # None
    /\ gen.result # None
    /\ handler' = [handler EXCEPT !.todo = @ \ {handler.cur},
                                  !.cur = None]
    /\ gen' = NoGen
    /\ invoked' = NoInvocation
    /\ UNCHANGED <<media, thumbs, records, genOk>>
    /\ UNCHANGED notThumb

\* line 2012
RegenEnd ==
    /\ handler.phase = "generate"
    /\ handler.todo = {}
    /\ handler.cur = None
    /\ handler' = NoHandler
    /\ records' = [p \in Paths |-> "NoRecord"]
    /\ UNCHANGED <<media, thumbs, gen, invoked, genOk>>
    /\ UNCHANGED notThumb

\* os.path.basename
Basename(p) == IF p = "image/i.jpg" THEN "i.jpg" ELSE "a.mp4"

\* POST /api/move-files, lines 1918-1961, for one file: it is renamed into
\* another folder of its media type (a name taken there gets a counter,
\* which leads out of Paths); no statement touches a thumbnail
MoveFile(p, q) ==
    /\ handler.op = "idle"
    /\ p \in media
    /\ q \notin media
    /\ p # q
    /\ TypeOf(p) = TypeOf(q)
    /\ Basename(p) = Basename(q)
    /\ media' = (media \ {p}) \cup {q}
    /\ UNCHANGED <<thumbs, handler, gen, records, invoked, genOk>>
    /\ UNCHANGED notThumb

\* /delete and /api/delete, lines 1670-1678 and 1874-1881: the file and the
\* thumbnail at its path are removed
DeleteFile(p) ==
    /\ handler.op = "idle"
    /\ p \in media
    /\ media' = media \ {p}
    /\ thumbs' = [thumbs EXCEPT ![p] = "absent"]
    /\ genOk' = genOk \ {p}
    /\ UNCHANGED <<handler, gen, records, invoked>>
    /\ UNCHANGED notThumb

\* one turn of the loop of lines 481-492: ffmpeg runs for the timestamp
GenAttempt ==
    /\ gen.active
    /\ gen.result = None
    /\ TypeOf(gen.path) = "video"
    /\ \E o \in Outcomes :
          /\ gen' = AttemptStep(gen, thumbs[gen.path], o)
          /\ thumbs' = [thumbs EXCEPT ![gen.path] = FileAfter(@, o)]
    /\ genOk' = IF gen'.result = "True" THEN genOk \cup {gen.path}
                ELSE genOk
    /\ UNCHANGED <<media, handler, records, invoked>>
    /\ UNCHANGED notThumb

\* lines 502-507: the thumbnail of an image
GenImage ==
    /\ gen.active
    /\ gen.result = None
    /\ TypeOf(gen.path) = "image"
    /\ \E o \in ImageOutcomes :
          /\ gen' = ImageStep(gen, thumbs[gen.path], o)
          /\ thumbs' = [thumbs EXCEPT ![gen.path] = FileAfter(@, o)]
    /\ genOk' = IF gen'.result = "True" THEN genOk \cup {gen.path}
                ELSE genOk
    /\ UNCHANGED <<media, handler, records, invoked>>
    /\ UNCHANGED notThumb

---------------------------------------------------------------------------
(* scan_media_files under threaded=True (line 2151): several requests list *)
(* the directory that holds one video whose thumbnail does not exist yet.  *)
(* Each thread runs lines 445-467 for that file; the test of line 455, the *)
(* runs of ffmpeg and line 465 are separate steps.                         *)

\* the video the directory holds
ScannedFile == "video/a.mp4"

ScanConcInit ==
    /\ sthumb = "absent"
    /\ spc = [th \in Threads |-> "idle"]
    /\ sgen = [th \in Threads |-> NoGen]
    /\ srec = [th \in Threads |-> "NoRecord"]

\* lines 441-454: a request's scan reaches the file
ConcScanBegin(th) ==
    /\ spc[th] = "idle"
    /\ spc' = [spc EXCEPT ![th] = "s455"]
    /\ srec' = [srec EXCEPT ![th] = "NoRecord"]
    /\ UNCHANGED <<sthumb, sgen>>
    /\ UNCHANGED notScan

\* line 455: if not os.path.exists(thumbnail_path), and the call of line 456
ConcScanCheck(th) ==
    /\ spc[th] = "s455"
    /\ IF ~Exists(sthumb)
       THEN /\ spc' = [spc EXCEPT ![th] = "s456"]
            /\ sgen' = [sgen EXCEPT ![th] = StartGen(ScannedFile, "scan")]
       ELSE /\ spc' = [spc EXCEPT ![th] = "s458"]
            /\ UNCHANGED sgen
    /\ UNCHANGED <<sthumb, srec>>
    /\ UNCHANGED notScan

\* one turn of the loop of lines 481-492 in the thread's call
ConcGenAttempt(th) ==
    /\ spc[th] = "s456"
    /\ sgen[th].result = None
    /\ \E o \in Outcomes :
          /\ sgen' = [sgen EXCEPT ![th] = AttemptStep(@, sthumb, o)]
          /\ sthumb' = FileAfter(sthumb, o)
    /\ UNCHANGED <<spc, srec>>
    /\ UNCHANGED notScan

\* lines 458-467: the record, once generate_thumbnail has returned or was
\* not called
ConcScanRecord(th) ==
    /\ \/ spc[th] = "s458"
       \/ spc[th] = "s456" /\ sgen[th].result # None
    /\ srec' = [srec EXCEPT ![th] =
                    IF Exists(sthumb) THEN "thumbnail" ELSE None]
    /\ spc' = [spc EXCEPT ![th] = "idle"]
    /\ sgen' = [sgen EXCEPT ![th] = NoGen]
    /\ UNCHANGED sthumb
    /\ UNCHANGED notScan

---------------------------------------------------------------------------
(* The media probe and the compatibility decision, lines 181-240.  Names   *)
(* of containers and codecs are sequences of one-character strings.        *)

UpperCase == <<"A", "B", "C", "D", "E", "F", "G", "H", "I", "J", "K", "L",
               "M", "N", "O", "P", "Q", "R", "S", "T", "U", "V", "W", "X",
               "Y", "Z">>

LowerCase == <<"a", "b", "c", "d", "e", "f", "g", "h", "i", "j", "k", "l",
               "m", "n", "o", "p", "q", "r", "s", "t", "u", "v", "w", "x",
               "y", "z">>

\* str.lower() of one character
LowerChar(c) ==
    IF \E i \in 1..26 : UpperCase[i] = c
    THEN LowerCase[CHOOSE i \in 1..26 : UpperCase[i] = c]
    ELSE c

\* str.lower()
Lower(w) == [i \in 1..Len(w) |-> LowerChar(w[i])]

\* sub in w, for strings
Contains(w, sub) ==
    \E i \in 1..(Len(w) - Len(sub) + 1) :
        SubSeq(w, i, i + Len(sub) - 1) = sub

\* Config.WEB_COMPATIBLE_CODECS, lines 52-56
WEB_COMPATIBLE_CODECS ==
    [video |-> {<<"h", "2", "6", "4">>, <<"a", "v", "c", "1">>,
                <<"v", "p", "8">>, <<"v", "p", "9">>,
                <<"a", "v", "0", "1">>},
     audio |-> {<<"a", "a", "c">>, <<"m", "p", "3">>,
                <<"o", "p", "u", "s">>, <<"v", "o", "r", "b", "i", "s">>,
                <<"m", "p", "4", "a">>},
     containers |-> {<<"m", "p", "4">>, <<"w", "e", "b", "m">>,
                     <<"o", "g", "g">>, <<"m", "o", "v">>}]

\* a stream of the probe, or None (present = FALSE); codec_name is the empty
\* string when the key is missing
NoStream == [present |-> FALSE, codec_name |-> <<>>]

Stream(codec_name) == [present |-> TRUE, codec_name |-> codec_name]

\* what get_video_info returns: None (present = FALSE) or the dictionary of
\* lines 201-207; format_name is the empty string when the key is missing
NoInfo == [present |-> FALSE, format_name |-> <<>>,
           video_stream |-> NoStream, audio_stream |-> NoStream]

\* container names as ffprobe prints them, one in capitals, and the
\* missing key
FormatNames ==
    {<<"m", "o", "v", ",", "m", "p", "4", ",", "m", "4", "a">>,
     <<"m", "a", "t", "r", "o", "s", "k", "a", ",", "w", "e", "b", "m">>,
     <<"a", "v", "i">>,
     <<"M", "P", "4">>,
     <<>>}

VideoCodecs == {<<"h", "2", "6", "4">>, <<"H", "2", "6", "4">>,
                <<"h", "e", "v", "c">>, <<"m", "p", "e", "g", "4">>, <<>>}

AudioCodecs == {<<"a", "a", "c">>, <<"A", "A", "C">>, <<"a", "c", "3">>,
                <<>>}

\* the entries of 'streams' in the output of ffprobe
StreamEntries ==
    [codec_type : {"video"}, codec_name : VideoCodecs]
        \cup [codec_type : {"audio"}, codec_name : AudioCodecs]
        \cup [codec_type : {"subtitle"}, codec_name : {<<>>}]

\* the most streams a probed file has
MaxStreams == 2

StreamLists ==
    UNION {[1..n -> StreamEntries] : n \in 0..MaxStreams}

NoOutput == [raises |-> FALSE, rc |-> 1, wellformed |-> FALSE,
             format_name |-> <<>>, streams |-> <<>>]

\* what the run of ffprobe of line 187 can give: an exception (the timeout
\* of 30 s, no ffprobe installed), a non-zero exit, exit 0 with output that
\* json.loads or the float() and int() of lines 205-206 reject, exit 0 with
\* a well-formed description
ProbeOutputs ==
    {[NoOutput EXCEPT !.raises = TRUE],
     NoOutput,
     [NoOutput EXCEPT !.rc = 0]}
        \cup [raises : {FALSE}, rc : {0}, wellformed : {TRUE},
              format_name : FormatNames, streams : StreamLists]

\* lines 191-199: the first stream of a kind, or None
FirstStream(streams, kind) ==
    LET at == {i \in 1..Len(streams) : streams[i].codec_type = kind}
    IN  IF at = {} THEN NoStream
        ELSE Stream(streams[CHOOSE i \in at : \A j \in at : i <= j]
                        .codec_name)

\* lines 181-210: get_video_info
GetVideoInfo(out) ==
    IF out.raises \/ out.rc # 0 \/ ~out.wellformed THEN NoInfo
    ELSE [present |-> TRUE, format_name |-> out.format_name,
          video_stream |-> FirstStream(out.streams, "video"),
          audio_stream |-> FirstStream(out.streams, "audio")]

\* line 222
ContainerCompatible(video_info) ==
    \E fmt \in WEB_COMPATIBLE_CODECS.containers :
        Contains(Lower(video_info.format_name), fmt)

\* lines 225-226, for a video stream that is present
VideoCompatible(video_info) ==
    Lower(video_info.video_stream.codec_name) \in WEB_COMPATIBLE_CODECS.video

\* lines 229-230
AudioCompatible(video_info) ==
    LET audio_codec == IF video_info.audio_stream.present
                       THEN Lower(video_info.audio_stream.codec_name)
                       ELSE <<"n", "o", "n", "e">>
    IN  \/ audio_codec \in WEB_COMPATIBLE_CODECS.audio
        \/ audio_codec = <<"n", "o", "n", "e">>

Bool(b) == IF b THEN "True" ELSE "False"

\* IsWebCompatible without the audio clause of line 232
IsWebCompatibleAnyAudio(video_info) ==
    IF ~video_info.present THEN "False"
    ELSE IF ~video_info.video_stream.present THEN "AttributeError"
    ELSE Bool(/\ ContainerCompatible(video_info)
              /\ VideoCompatible(video_info))

\* lines 212-240: is_web_compatible; video_info.get('video_stream', {}) is
\* None for a probe without a video stream (the key is present, line 203),
\* and line 225 then raises
IsWebCompatible(video_info) ==
    IF ~video_info.present THEN "False"
    ELSE IF ~video_info.video_stream.present THEN "AttributeError"
    ELSE Bool(/\ ContainerCompatible(video_info)
              /\ VideoCompatible(video_info)
              /\ AudioCompatible(video_info))

NoResponse == [route |-> None, exists |-> FALSE, info |-> NoInfo,
               status |-> NoStatus, web_compatible |-> None,
               audio_codec |-> NoStream]

ProbeInit ==
    /\ probeOut = NoOutput
    /\ probeResp = NoResponse

\* is_web_compatible(video_info) on what get_video_info made of a run of
\* ffprobe
Classify ==
    /\ \E out \in ProbeOutputs :
          /\ probeOut' = out
          /\ probeResp' =
                 [NoResponse EXCEPT
                     !.route = "is_web_compatible",
                     !.exists = TRUE,
                     !.info = GetVideoInfo(out),
                     !.web_compatible = IsWebCompatible(GetVideoInfo(out))]
    /\ UNCHANGED notProbe

\* lines 1705-1720: the answer of /api/video/info for an existing video.
\* The dictionary of line 1709 is built key by key: lines 1713 and 1714
\* call .get on the stream, which is None when the probe found no stream of
\* that kind, and the AttributeError, caught nowhere, makes the answer a 500
ApiVideoInfoResponse(video_info) ==
    IF ~video_info.present
    THEN [NoResponse EXCEPT !.status = 500]
    ELSE IF ~video_info.video_stream.present
    THEN [NoResponse EXCEPT !.status = 500]
    ELSE IF ~video_info.audio_stream.present
    THEN [NoResponse EXCEPT !.status = 500]
    ELSE [NoResponse EXCEPT
             !.status = 200,
             !.audio_codec = video_info.audio_stream,
             !.web_compatible = IsWebCompatible(video_info)]

\* GET /api/video/info/<filename>, lines 1690-1720
ApiVideoInfo ==
    /\ \E exists \in BOOLEAN, out \in ProbeOutputs :
          IF ~exists
          THEN /\ probeOut' = NoOutput
               /\ probeResp' = [NoResponse EXCEPT
                                    !.route = "api_video_info",
                                    !.status = 404]
          ELSE /\ probeOut' = out
               /\ probeResp' =
                      [ApiVideoInfoResponse(GetVideoInfo(out)) EXCEPT
                          !.route = "api_video_info",
                          !.exists = TRUE,
                          !.info = GetVideoInfo(out)]
    /\ UNCHANGED notProbe

\* GET /stream/<filename> for a video, lines 1471-1490 and 1070-1080: the
\* probe only feeds the X-Content-Duration header, '0' without probe data
StreamVideo ==
    /\ \E exists \in BOOLEAN, out \in ProbeOutputs,
          h \in {NoHeader, Header(RangeText(0, 99))} :
          IF ~exists
          THEN /\ probeOut' = NoOutput
               /\ probeResp' = [NoResponse EXCEPT
                                    !.route = "stream_file",
                                    !.status = 404]
          ELSE /\ probeOut' = out
               /\ probeResp' = [NoResponse EXCEPT
                                    !.route = "stream_file",
                                    !.exists = TRUE,
                                    !.info = GetVideoInfo(out),
                                    !.status = StatusFor(h)]
    /\ UNCHANGED notProbe

---------------------------------------------------------------------------
(* Episode information, lines 648-697.  File names are sequences of        *)
(* one-character strings; a position is an index into the name, and a run  *)
(* of digits or of white space that starts at a position ends before the   *)
(* position DigitsEnd or SpacesEnd gives.                                  *)

\* a number that is not set (None); the numbers read from names are >= 0
NoNumber == -1

\* an optional string: None, or the text
NoText == [some |-> FALSE, text |-> <<>>]

Text(w) == [some |-> TRUE, text |-> w]

\* \s
IsSpace(c) == c \in {" ", "\t"}

\* the position after the longest run of digits that starts at i
RECURSIVE DigitsEnd(_, _)
DigitsEnd(w, i) ==
    IF i <= Len(w) /\ IsDecimal(w[i]) THEN DigitsEnd(w, i + 1) ELSE i

\* the position after the longest run of white space that starts at i
RECURSIVE SpacesEnd(_, _)
SpacesEnd(w, i) ==
    IF i <= Len(w) /\ IsSpace(w[i]) THEN SpacesEnd(w, i + 1) ELSE i

\* the literal, given in lower case, matches at i under re.IGNORECASE
MatchLit(w, i, lit) ==
    /\ i >= 1
    /\ i + Len(lit) - 1 <= Len(w)
    /\ Lower(SubSeq(w, i, i + Len(lit) - 1)) = lit

\* str.strip()
RECURSIVE Strip(_)
Strip(w) ==
    IF Len(w) = 0 THEN w
    ELSE IF IsSpace(w[1]) THEN Strip(Tail(w))
    ELSE IF IsSpace(w[Len(w)]) THEN Strip(SubSeq(w, 1, Len(w) - 1))
    ELSE w

\* the extensions of line 653
VideoExtensions ==
    {<<"m", "p", "4">>, <<"m", "k", "v">>, <<"a", "v", "i">>,
     <<"m", "o", "v">>, <<"w", "m", "v">>, <<"f", "l", "v">>,
     <<"w", "e", "b", "m">>, <<"m", "4", "v">>}

\* line 653: the name without its video extension
CleanName(filename) ==
    IF \E ext \in VideoExtensions :
           MatchLit(filename, Len(filename) - Len(ext), <<".">> \o ext)
    THEN LET ext == CHOOSE ext \in VideoExtensions :
                        MatchLit(filename, Len(filename) - Len(ext),
                                 <<".">> \o ext)
         IN  SubSeq(filename, 1, Len(filename) - Len(ext) - 1)
    ELSE filename

\* what the part of a pattern after its leading (.+?)\s+ gives at a
\* position: no match, or the numbers of its groups
NoMatch == [ok |-> FALSE, season |-> NoNumber, episode |-> NoNumber]

\* Matched with the number of a pattern of one number stored as the season
\* and not as the episode (line 683)
MatchedSeasonFirst(season, episode) ==
    IF season = NoNumber
    THEN [ok |-> TRUE, season |-> episode, episode |-> NoNumber]
    ELSE [ok |-> TRUE, season |-> season, episode |-> episode]

Matched(season, episode) ==
    [ok |-> TRUE, season |-> season, episode |-> episode]

\* int(match.group(n)) for the digits from i to before j
Number(w, i, j) == IntOf(SubSeq(w, i, j - 1))

\* line 665: [Ss](\d+)[Ee](\d+)
TailSxxEyy(w, j) ==
    LET d1 == DigitsEnd(w, j + 1)
        d2 == DigitsEnd(w, d1 + 1)
    IN  IF /\ MatchLit(w, j, <<"s">>)
           /\ d1 > j + 1
           /\ MatchLit(w, d1, <<"e">>)
           /\ d2 > d1 + 1
        THEN Matched(Number(w, j + 1, d1), Number(w, d1 + 1, d2))
        ELSE NoMatch

\* [Ee]pisode\s*(\d+) matches at m
EpisodeWordAt(w, m) ==
    /\ MatchLit(w, m, <<"e", "p", "i", "s", "o", "d", "e">>)
    /\ DigitsEnd(w, SpacesEnd(w, m + 7)) > SpacesEnd(w, m + 7)

\* the number of [Ee]pisode\s*(\d+) that matches at m
EpisodeWordNumber(w, m) ==
    Number(w, SpacesEnd(w, m + 7), DigitsEnd(w, SpacesEnd(w, m + 7)))

\* line 666: [Ss]eason\s*(\d+).*?[Ee]pisode\s*(\d+)
TailSeasonEpisode(w, j) ==
    LET a  == SpacesEnd(w, j + 6)
        b  == DigitsEnd(w, a)
        at == {m \in b..Len(w) : EpisodeWordAt(w, m)}
    IN  IF /\ MatchLit(w, j, <<"s", "e", "a", "s", "o", "n">>)
           /\ b > a
           /\ at # {}
        THEN Matched(Number(w, a, b),
                     EpisodeWordNumber(
                         w, CHOOSE m \in at : \A n \in at : m <= n))
        ELSE NoMatch

\* line 667: (\d+)x(\d+)
TailNxM(w, j) ==
    LET d1 == DigitsEnd(w, j)
        d2 == DigitsEnd(w, d1 + 1)
    IN  IF d1 > j /\ MatchLit(w, d1, <<"x">>) /\ d2 > d1 + 1
        THEN Matched(Number(w, j, d1), Number(w, d1 + 1, d2))
        ELSE NoMatch

\* line 668: [Ee]p\.?\s*(\d+)
TailEp(w, j) ==
    LET a == IF MatchLit(w, j + 2, <<".">>) THEN j + 3 ELSE j + 2
        b == SpacesEnd(w, a)
    IN  IF MatchLit(w, j, <<"e", "p">>) /\ DigitsEnd(w, b) > b
        THEN Matched(NoNumber, Number(w, b, DigitsEnd(w, b)))
        ELSE NoMatch

\* line 669: [Ee]pisode\s*(\d+)
TailEpisode(w, j) ==
    IF EpisodeWordAt(w, j)
    THEN Matched(NoNumber, EpisodeWordNumber(w, j))
    ELSE NoMatch

\* line 670: [Ee](\d+)
TailE(w, j) ==
    IF MatchLit(w, j, <<"e">>) /\ DigitsEnd(w, j + 1) > j + 1
    THEN Matched(NoNumber, Number(w, j + 1, DigitsEnd(w, j + 1)))
    ELSE NoMatch

\* line 671: (\d+)
TailNumber(w, j) ==
    IF DigitsEnd(w, j) > j
    THEN Matched(NoNumber, Number(w, j, DigitsEnd(w, j)))
    ELSE NoMatch

\* lines 664-672: the patterns, by their place in the list
PatternTail(n, w, j) ==
    CASE n = 1 -> TailSxxEyy(w, j)
      [] n = 2 -> TailSeasonEpisode(w, j)
      [] n = 3 -> TailNxM(w, j)
      [] n = 4 -> TailEp(w, j)
      [] n = 5 -> TailEpisode(w, j)
      [] n = 6 -> TailE(w, j)
      [] n = 7 -> TailNumber(w, j)

NumPatterns == 7

\* the positions where the \s+ of pattern n can start: at least one
\* character before it for (.+?), white space from there up to where the
\* rest of the pattern matches
PatternAt(n, w) ==
    {q \in 2..Len(w) :
        IsSpace(w[q]) /\ PatternTail(n, w, SpacesEnd(w, q)).ok}

\* re.search(pattern, clean_name, re.IGNORECASE) finds a match
Matches(n, w) == PatternAt(n, w) # {}

\* the start of the \s+ in the match that re.search returns: the lazy
\* (.+?) takes the fewest characters
MatchPos(n, w) ==
    CHOOSE q \in PatternAt(n, w) : \A r \in PatternAt(n, w) : q <= r

\* the position where the longest run of digits that ends at e starts
RECURSIVE DigitsStart(_, _)
DigitsStart(w, e) ==
    IF e >= 1 /\ IsDecimal(w[e]) THEN DigitsStart(w, e - 1) ELSE e + 1

\* the position where the longest run of white space that ends at e starts
RECURSIVE SpacesStart(_, _)
SpacesStart(w, e) ==
    IF e >= 1 /\ IsSpace(w[e]) THEN SpacesStart(w, e - 1) ELSE e + 1

\* line 689-691: int(numbers[-1]), the last run of digits of a name that
\* has a digit
LastNumber(w) ==
    LET e == CHOOSE i \in 1..Len(w) :
                 /\ IsDecimal(w[i])
                 /\ \A j \in (i + 1)..Len(w) : ~IsDecimal(w[j])
    IN  Number(w, DigitsStart(w, e), e + 1)

\* line 693: re.sub of \s*\d+\s*$ by the empty string
CutTrailingNumber(w) ==
    LET e == SpacesStart(w, Len(w)) - 1
        b == DigitsStart(w, e)
    IN  IF b <= e THEN SubSeq(w, 1, SpacesStart(w, b - 1) - 1) ELSE w

\* lines 674-684: the dictionary after the loop over the patterns; the
\* first pattern that matches fills it
AfterPatterns(clean_name) ==
    LET hits == {n \in 1..NumPatterns : Matches(n, clean_name)}
    IN  IF hits = {}
        THEN [clean_title |-> clean_name, season |-> NoNumber,
              episode |-> NoNumber, series_name |-> NoText]
        ELSE LET n == CHOOSE n \in hits : \A m \in hits : n <= m
                 q == MatchPos(n, clean_name)
                 t == PatternTail(n, clean_name, SpacesEnd(clean_name, q))
             IN  [clean_title |-> clean_name, season |-> t.season,
                  episode |-> t.episode,
                  series_name |->
                      Text(Strip(SubSeq(clean_name, 1, q - 1)))]

\* `not episode_info['series_name']`: None or the empty string
Falsy(t) == ~t.some \/ t.text = <<>>

\* lines 687-695: without a series name, the last number of the name is the
\* episode and what is left before a trailing number the series
Fallback(info) ==
    IF Falsy(info.series_name)
       /\ \E i \in 1..Len(info.clean_title) :
              IsDecimal(info.clean_title[i])
    THEN [info EXCEPT
             !.episode = LastNumber(info.clean_title),
             !.series_name =
                 IF CutTrailingNumber(info.clean_title) # <<>>
                 THEN Text(Strip(CutTrailingNumber(info.clean_title)))
                 ELSE @]
    ELSE info

\* lines 648-697: extract_episode_info
ExtractEpisodeInfo(filename) == Fallback(AfterPatterns(CleanName(filename)))

---------------------------------------------------------------------------
(* Natural sort and the series groups, lines 637-646 and 699-755           *)

\* the printable characters of ASCII in the order of their codes (without
\* the double quote, the backslash and the backquote, which no name here
\* holds)
Ascii ==
    <<" ", "!", "#", "$", "%", "&", "'", "(", ")", "*", "+", ",", "-", ".",
      "/", "0", "1", "2", "3", "4", "5", "6", "7", "8", "9", ":", ";", "<",
      "=", ">", "?", "@", "A", "B", "C", "D", "E", "F", "G", "H", "I", "J",
      "K", "L", "M", "N", "O", "P", "Q", "R", "S", "T", "U", "V", "W", "X",
      "Y", "Z", "[", "]", "^", "_", "a", "b", "c", "d", "e", "f", "g",
      "h", "i", "j", "k", "l", "m", "n", "o", "p", "q", "r", "s", "t", "u",
      "v", "w", "x", "y", "z", "{", "|", "}", "~">>

\* ord(c), up to a shift
Ord(c) ==
    IF c = ArabicThree THEN Len(Ascii) + 1
    ELSE CHOOSE i \in 1..Len(Ascii) : Ascii[i] = c

\* the parts of a natural sort key: an int, or a lower-cased text
NumPart(n) == [num |-> TRUE, n |-> n, s |-> <<>>]

StrPart(w) == [num |-> FALSE, n |-> 0, s |-> Lower(w)]

\* lines 640-644: convert(); str.isdigit() holds of a non-empty text of
\* decimal digits, ASCII or not
Convert(text_part) ==
    IF /\ text_part # <<>>
       /\ \A i \in 1..Len(text_part) : IsDecimal(text_part[i])
    THEN NumPart(IntOf(text_part))
    ELSE StrPart(text_part)

\* the position after the longest run of characters other than 0 to 9 that
\* starts at i
RECURSIVE NonDigitsEnd(_, _)
NonDigitsEnd(w, i) ==
    IF i <= Len(w) /\ ~IsDigit(w[i]) THEN NonDigitsEnd(w, i + 1) ELSE i

\* line 646: the text from position i on split at its runs of the digits 0
\* to 9, each part converted: a part between the runs (which may be
\* empty), then a run and the rest if a digit follows
RECURSIVE SplitFrom(_, _)
SplitFrom(w, i) ==
    LET a == NonDigitsEnd(w, i)
        b == a + DigitRun(w, a)
    IN  <<Convert(SubSeq(w, i, a - 1))>>
            \o IF a > Len(w) THEN <<>>
               ELSE <<Convert(SubSeq(w, a, b - 1))>> \o SplitFrom(w, b)

\* lines 637-646: natural_sort_key
NaturalSortKey(text) == SplitFrom(text, 1)

\* str < str
RECURSIVE StrLess(_, _)
StrLess(v, w) ==
    IF Len(w) = 0 THEN FALSE
    ELSE IF Len(v) = 0 THEN TRUE
    ELSE IF v[1] # w[1] THEN Ord(v[1]) < Ord(w[1])
    ELSE StrLess(Tail(v), Tail(w))

\* the comparison of two lists as sort makes it: "lt", "eq", "gt", or the
\* TypeError of an int compared with a str
RECURSIVE CompareKeys(_, _)
CompareKeys(k, l) ==
    IF Len(k) = 0 /\ Len(l) = 0 THEN "eq"
    ELSE IF Len(k) = 0 THEN "lt"
    ELSE IF Len(l) = 0 THEN "gt"
    ELSE IF k[1].num # l[1].num THEN "TypeError"
    ELSE IF k[1] = l[1] THEN CompareKeys(Tail(k), Tail(l))
    ELSE IF k[1].num THEN (IF k[1].n < l[1].n THEN "lt" ELSE "gt")
    ELSE IF StrLess(k[1].s, l[1].s) THEN "lt" ELSE "gt"

\* a file of the video directory: its name and the folder it is in, the
\* empty string for the directory itself
File(folder, filename) == [folder |-> folder, filename |-> filename]

\* the words the names are made of
ShowName == <<"S", "h", "o", "w">>

S01E01 == <<" ", "S", "0", "1", "E", "0", "1", ".", "m", "p", "4">>

S01E02 == <<" ", "S", "0", "1", "E", "0", "2", ".", "m", "p", "4">>

S01E10 == <<" ", "S", "0", "1", "E", "1", "0", ".", "m", "p", "4">>

S02E01 == <<" ", "S", "0", "2", "E", "0", "1", ".", "m", "p", "4">>

\* the files that can be in the video directory: three episodes of a
\* series at its root and one of its second season, an episode of the same
\* name in the folder Show, a film without a digit in its name at the root
\* and one in a folder of a folder, and a picture in the folder Show
Files ==
    {File(<<>>, ShowName \o S01E01),
     File(<<>>, ShowName \o S01E02),
     File(<<>>, ShowName \o S01E10),
     File(<<>>, ShowName \o S02E01),
     File(ShowName, ShowName \o S01E01),
     File(<<>>, <<"m", "o", "v", "i", "e", ".", "m", "p", "4">>),
     File(<<"A", "/", "B">>, <<"x", ".", "m", "p", "4">>),
     File(ShowName, <<"c", "o", "v", "e", "r", ".", "j", "p", "g">>)}

\* allowed_file(item)[1], line 446, for the names of Files
DetectedType(filename) ==
    IF MatchLit(filename, Len(filename) - 3, <<".", "j", "p", "g">>)
    THEN "image" ELSE "video"

\* os.path.join(folder_path, item), line 443
RelativePath(f) ==
    IF f.folder = <<>> THEN f.filename
    ELSE f.folder \o <<"/">> \o f.filename

\* lines 458-467 and 747-750: the record of a file as
\* get_enhanced_media_files returns it; a record that is no video has no
\* episode keys, and none has the key 'series_key'
MediaRecord(f) ==
    LET info == IF DetectedType(f.filename) = "video"
                THEN ExtractEpisodeInfo(f.filename)
                ELSE [clean_title |-> <<>>, season |-> NoNumber,
                      episode |-> NoNumber, series_name |-> NoText]
    IN  [filename |-> f.filename, folder |-> f.folder,
         relative_path |-> RelativePath(f),
         type |-> DetectedType(f.filename),
         season |-> info.season, episode |-> info.episode,
         series_name |-> info.series_name, series_key |-> NoText]

\* `x or 0` for an optional number
OrZero(n) == IF n = NoNumber THEN 0 ELSE n

\* Less without the season in the key of the groups
LessWithoutSeason(mode, x, y) ==
    LET byName == CompareKeys(NaturalSortKey(x.filename),
                              NaturalSortKey(y.filename)) = "lt"
    IN  IF mode = "filename" THEN byName
        ELSE \/ OrZero(x.episode) < OrZero(y.episode)
             \/ /\ OrZero(x.episode) = OrZero(y.episode)
                /\ byName

\* x sorts before y: by the key of line 753 (mode "filename") or by the
\* key of lines 732-736 (mode "episode"); the names of Files have ASCII
\* digits only, so that comparing their keys does not raise
Less(mode, x, y) ==
    LET byName == CompareKeys(NaturalSortKey(x.filename),
                              NaturalSortKey(y.filename)) = "lt"
    IN  IF mode = "filename" THEN byName
        ELSE \/ OrZero(x.season) < OrZero(y.season)
             \/ /\ OrZero(x.season) = OrZero(y.season)
                /\ OrZero(x.episode) < OrZero(y.episode)
             \/ /\ OrZero(x.season) = OrZero(y.season)
                /\ OrZero(x.episode) = OrZero(y.episode)
                /\ byName

\* x put into a sorted list, behind the elements it does not sort before
RECURSIVE InsertSorted(_, _, _)
InsertSorted(mode, x, srt) ==
    IF Len(srt) = 0 THEN <<x>>
    ELSE IF Less(mode, x, srt[Len(srt)])
    THEN Append(InsertSorted(mode, x, SubSeq(srt, 1, Len(srt) - 1)),
                srt[Len(srt)])
    ELSE Append(srt, x)

\* list.sort(key=...), which is stable
RECURSIVE SortBy(_, _)
SortBy(mode, list) ==
    IF Len(list) = 0 THEN <<>>
    ELSE InsertSorted(mode, list[Len(list)],
                      SortBy(mode, SubSeq(list, 1, Len(list) - 1)))

\* the record of each file of Files
MediaRecords == [f \in Files |-> MediaRecord(f)]

\* lines 740-755: get_enhanced_media_files for the files in the order
\* scan_media_files met them
GetEnhancedMediaFiles(listing) ==
    SortBy("filename", [i \in 1..Len(listing) |-> MediaRecords[listing[i]]])

UnknownSeries == <<"U", "n", "k", "n", "o", "w", "n", " ", "S", "e", "r", "i", "e", "s">>

\* str.replace('/', ' ')
SlashesToSpaces(w) == [i \in 1..Len(w) |-> IF w[i] = "/" THEN " " ELSE w[i]]

\* lines 712-716: the folder, else the series name, else 'Unknown Series';
\* episode_info.get('series_name', '') is None when no series name was
\* found (the key is present, line 660) and .strip() then raises
KeyRaises(r) == Strip(r.folder) = <<>> /\ ~r.series_name.some

\* lines 712-721: the series key of a video record whose key does not raise
SeriesKey(r) ==
    LET chosen == IF Strip(r.folder) # <<>> THEN Strip(r.folder)
                  ELSE IF Strip(r.series_name.text) # <<>>
                  THEN Strip(r.series_name.text)
                  ELSE UnknownSeries
        normal == Strip(SlashesToSpaces(chosen))
    IN  IF normal = <<>> THEN UnknownSeries ELSE normal

\* the records of a list that are videos, in the order of the list
RECURSIVE Videos(_)
Videos(list) ==
    IF Len(list) = 0 THEN <<>>
    ELSE IF list[1].type = "video"
    THEN <<list[1]>> \o Videos(Tail(list))
    ELSE Videos(Tail(list))

\* the records of a list of videos that have the key, with 'series_key'
\* added (line 727), in the order of the list
RECURSIVE WithKey(_, _)
WithKey(list, key) ==
    IF Len(list) = 0 THEN <<>>
    ELSE IF SeriesKey(list[1]) = key
    THEN <<[list[1] EXCEPT !.series_key = Text(key)]>>
             \o WithKey(Tail(list), key)
    ELSE WithKey(Tail(list), key)

\* group_files_by_series raises the AttributeError of line 714
GroupingRaises(files) ==
    \E i \in 1..Len(files) : files[i].type = "video" /\ KeyRaises(files[i])

\* lines 699-738: group_files_by_series, when it does not raise: each key
\* with its records sorted
GroupFilesBySeries(files) ==
    LET videos == Videos(files)
        keys   == {SeriesKey(videos[i]) : i \in 1..Len(videos)}
    IN  [key \in keys |-> SortBy("episode", WithKey(videos, key))]

\* what find_next_episode and find_previous_episode return: None, a record,
\* or the exception they end with
NoEpisode == [kind |-> "None", relative_path |-> <<>>]

Episode(r) == [kind |-> "record", relative_path |-> r.relative_path]

Raised == [kind |-> "AttributeError", relative_path |-> <<>>]

\* lines 771-777: the index of the first episode with the file's name, or 0
\* (for the -1 of line 771)
IndexOf(series_episodes, current_file) ==
    LET at == {i \in 1..Len(series_episodes) :
                  series_episodes[i].filename = current_file.filename}
    IN  IF at = {} THEN 0 ELSE CHOOSE i \in at : \A j \in at : i <= j

\* FindEpisode with the first episode of a group never returned: the test
\* of line 807 as current_index > 1
FindEpisodeNotFirst(step, current_file, all_files) ==
    IF current_file.type # "video" THEN NoEpisode
    ELSE IF GroupingRaises(all_files) THEN Raised
    ELSE LET series_groups == GroupFilesBySeries(all_files)
         IN  IF \/ Falsy(current_file.series_key)
                \/ current_file.series_key.text \notin DOMAIN series_groups
             THEN NoEpisode
             ELSE LET series_episodes ==
                          series_groups[current_file.series_key.text]
                      current_index ==
                          IndexOf(series_episodes, current_file)
                  IN  IF /\ current_index >= 1
                         /\ current_index + step >= 2
                         /\ current_index + step <= Len(series_episodes)
                      THEN Episode(series_episodes[current_index + step])
                      ELSE NoEpisode

\* lines 757-811: find_next_episode (step 1) and find_previous_episode
\* (step -1), which differ in the index they return
FindEpisode(step, current_file, all_files) ==
    IF current_file.type # "video" THEN NoEpisode
    ELSE IF GroupingRaises(all_files) THEN Raised
    ELSE LET series_groups == GroupFilesBySeries(all_files)
         IN  IF \/ Falsy(current_file.series_key)
                \/ current_file.series_key.text \notin DOMAIN series_groups
             THEN NoEpisode
             ELSE LET series_episodes ==
                          series_groups[current_file.series_key.text]
                      current_index ==
                          IndexOf(series_episodes, current_file)
                  IN  IF /\ current_index >= 1
                         /\ current_index + step >= 1
                         /\ current_index + step <= Len(series_episodes)
                      THEN Episode(series_episodes[current_index + step])
                      ELSE NoEpisode

find_next_episode(current_file, all_files) ==
    FindEpisode(1, current_file, all_files)

find_previous_episode(current_file, all_files) ==
    FindEpisode(-1, current_file, all_files)

\* the most files the video directory holds
MaxFiles == 3

NoNav == [op |-> None, relative_path |-> <<>>, type |-> None,
          has_key |-> FALSE, status |-> NoStatus, success |-> FALSE,
          result |-> NoEpisode]

SeriesInit ==
    /\ library = <<>>
    /\ navResp = NoNav

\* no call is recorded: calls are taken one for each state of the
\* directory, and a change of the directory forgets the call
Idle == navResp.op = None

InLibrary(f) == \E i \in 1..Len(library) : library[i] = f

\* a file comes into the video directory (an upload, a move, a copy); the
\* order in which os.listdir gives the files is any
AddFile(f) ==
    /\ Len(library) < MaxFiles
    /\ ~InLibrary(f)
    /\ library' = Append(library, f)
    /\ navResp' = NoNav
    /\ UNCHANGED notSeries

\* a file of the video directory is deleted
RemoveFile(f) ==
    /\ InLibrary(f)
    /\ library' = SelectSeq(library, LAMBDA g : g # f)
    /\ navResp' = NoNav
    /\ UNCHANGED notSeries

\* the records a caller can hold: those of get_enhanced_media_files, and
\* the members of the groups of group_files_by_series
RecordsOf(all_files) ==
    {all_files[i] : i \in 1..Len(all_files)}
        \cup IF GroupingRaises(all_files) THEN {}
             ELSE LET series_groups == GroupFilesBySeries(all_files)
                  IN  UNION {{series_groups[k][i] :
                                 i \in 1..Len(series_groups[k])} :
                             k \in DOMAIN series_groups}

\* find_next_episode(current_file, all_files) or
\* find_previous_episode(current_file, all_files) on a record of the scan
CallFind(step) ==
    /\ Idle
    /\ \E all_files \in {GetEnhancedMediaFiles(library)} :
          \E current_file \in RecordsOf(all_files) :
              navResp' =
                  [NoNav EXCEPT
                      !.op = IF step = 1 THEN "find_next_episode"
                             ELSE "find_previous_episode",
                      !.relative_path = current_file.relative_path,
                      !.type = current_file.type,
                      !.has_key = current_file.series_key.some,
                      !.result = FindEpisode(step, current_file, all_files)]
    /\ UNCHANGED library
    /\ UNCHANGED notSeries

FindNext == CallFind(1)

FindPrevious == CallFind(-1)

\* lines 829-832: the first record with the relative path, 0 for None
CurrentFile(files, filename) ==
    LET at == {i \in 1..Len(files) : files[i].relative_path = filename}
    IN  IF at = {} THEN 0 ELSE CHOOSE i \in at : \A j \in at : i <= j

\* lines 814-856 and 858-900: the answer of /api/episode/next/<filename>
\* (step 1) and /api/episode/previous/<filename> (step -1)
ApiEpisode(step, filename, files) ==
    LET at    == CurrentFile(files, filename)
        found == FindEpisode(step, files[at], files)
        op    == IF step = 1 THEN "api_next_episode"
                 ELSE "api_previous_episode"
    IN  IF at = 0
        THEN [NoNav EXCEPT !.op = op, !.relative_path = filename,
                           !.status = 404]
        ELSE [NoNav EXCEPT
                 !.op = op, !.relative_path = filename,
                 !.type = files[at].type,
                 !.has_key = files[at].series_key.some,
                 !.status = IF found.kind = "AttributeError" THEN 500
                            ELSE 200,
                 !.success = found.kind = "record",
                 !.result = found]

\* GET /api/episode/next/<filename>
ApiNextEpisode ==
    /\ Idle
    /\ \E files \in {GetEnhancedMediaFiles(library)} :
          \E f \in Files :
              navResp' = ApiEpisode(1, RelativePath(f), files)
    /\ UNCHANGED library
    /\ UNCHANGED notSeries

\* GET /api/episode/previous/<filename>
ApiPreviousEpisode ==
    /\ Idle
    /\ \E files \in {GetEnhancedMediaFiles(library)} :
          \E f \in Files :
              navResp' = ApiEpisode(-1, RelativePath(f), files)
    /\ UNCHANGED library
    /\ UNCHANGED notSeries

\* lines 902-950: the answer of /api/series/<filename>
ApiSeries(filename, files) ==
    LET at == CurrentFile(files, filename)
        op == "api_series_episodes"
    IN  IF at = 0
        THEN [NoNav EXCEPT !.op = op, !.relative_path = filename,
                           !.status = 404]
        ELSE IF GroupingRaises(files)
        THEN [NoNav EXCEPT !.op = op, !.relative_path = filename,
                           !.type = files[at].type,
                           !.has_key = files[at].series_key.some,
                           !.status = 500, !.result = Raised]
        ELSE [NoNav EXCEPT
                 !.op = op, !.relative_path = filename,
                 !.type = files[at].type,
                 !.has_key = files[at].series_key.some,
                 !.status = 200,
                 !.success =
                     /\ ~Falsy(files[at].series_key)
                     /\ files[at].series_key.text
                            \in DOMAIN GroupFilesBySeries(files)]

\* GET /api/series/<filename>
ApiSeriesEpisodes ==
    /\ Idle
    /\ \E files \in {GetEnhancedMediaFiles(library)} :
          \E f \in Files :
              navResp' = ApiSeries(RelativePath(f), files)
    /\ UNCHANGED library
    /\ UNCHANGED notSeries

\* the records of the files in the order the listing gave them, unsorted
Listed == [i \in 1..Len(library) |-> MediaRecords[library[i]]]

\* group_files_by_series(files) for the records of the directory in any
\* order
GroupFiles ==
    /\ Idle
    /\ \E files \in {Listed} :
          navResp' =
              [op |-> "group_files_by_series", files |-> files,
               raised |-> GroupingRaises(files),
               groups |-> IF GroupingRaises(files) THEN <<>>
                          ELSE GroupFilesBySeries(files)]
    /\ UNCHANGED library
    /\ UNCHANGED notSeries

\* the members of the groups, which carry 'series_key'
GroupRecords(all_files) ==
    {r \in RecordsOf(all_files) : r.series_key.some}

\* the member of a group an answer of FindEpisode stands for
RecordOf(all_files, answer) ==
    CHOOSE r \in GroupRecords(all_files) :
        r.relative_path = answer.relative_path

\* y = find_next_episode(x, all_files) and then
\* find_previous_episode(y, all_files) for a member x of a group (step 1),
\* or previous and then next (step -1)
ThereAndBack(step) ==
    /\ Idle
    /\ \E all_files \in {GetEnhancedMediaFiles(library)} :
          \E x \in GroupRecords(all_files) :
              \E there \in {FindEpisode(step, x, all_files)} :
                  /\ there.kind = "record"
                  /\ \E back \in {FindEpisode(-step,
                                               RecordOf(all_files, there),
                                               all_files)} :
                        navResp' =
                            [op |-> "there_and_back", step |-> step,
                             filename |-> x.filename,
                             relative_path |-> x.relative_path,
                             series_key |-> x.series_key.text,
                             there |-> there, back |-> back,
                             back_filename |->
                                 IF back.kind = "record"
                                 THEN Text(RecordOf(all_files, back).filename)
                                 ELSE NoText]
    /\ UNCHANGED library
    /\ UNCHANGED notSeries

NextThenPrevious == ThereAndBack(1)

PreviousThenNext == ThereAndBack(-1)

---------------------------------------------------------------------------
(* extract_episode_info and natural_sort_key on file names made of words   *)

\* the longest name, in words
MaxWords == 3

\* the words the names given to extract_episode_info are made of: two
\* series names, white space, a tail for each pattern of lines 665-671,
\* and two extensions
EpisodeWords ==
    {<<"B", "r", "e", "a", "k", "i", "n", "g", " ", "B", "a", "d">>,
     <<"S", "h", "o", "w">>,
     <<" ">>,
     <<" ", "S", "0", "1", "E", "0", "5">>,
     <<" ", "s", "e", "a", "s", "o", "n", " ", "2">>,
     <<" ", "E", "p", "i", "s", "o", "d", "e", " ", "1", "1">>,
     <<" ", "3", "x", "0", "4">>,
     <<" ", "E", "p", ".", "6">>,
     <<" ", "e", "8">>,
     <<" ", "0", "7">>,
     <<".", "m", "p", "4">>,
     <<".", "m", "k", "v">>}

\* the names of at most k words
RECURSIVE NamesOf(_, _)
NamesOf(words, k) ==
    IF k = 0 THEN {<<>>}
    ELSE LET shorter == NamesOf(words, k - 1)
         IN  shorter \cup {n \o w : n \in shorter, w \in words}

EpisodeNames == NamesOf(EpisodeWords, MaxWords)

NoNameCall == [op |-> None]

NamesInit == nameCall = NoNameCall

\* a call of extract_episode_info with one of the names, not yet run
EpisodeInfoInit ==
    \E filename \in EpisodeNames :
        nameCall = [op |-> "call extract_episode_info",
                    filename |-> filename]

\* extract_episode_info(filename)
ExtractInfo ==
    /\ nameCall.op = "call extract_episode_info"
    /\ nameCall' = [op |-> "extract_episode_info",
                    filename |-> nameCall.filename,
                    info |-> ExtractEpisodeInfo(nameCall.filename)]
    /\ UNCHANGED notNames

\* the longest name that is sorted, in words
MaxSortWords == 2

\* the words the sorted names are made of
SortWords ==
    {<<"E", "p", "i", "s", "o", "d", "e", " ">>,
     <<"E", "p", "i", "s", "o", "d", "e", " ", "1", "0">>,
     <<"2">>, <<"1", "0">>, <<"b">>, <<"B">>, <<ArabicThree>>}

SortNames == NamesOf(SortWords, MaxSortWords)

\* two of the names about to be compared by a sort
NaturalSortInit ==
    \E a \in SortNames, b \in SortNames :
        nameCall = [op |-> "call natural_sort_key", a |-> a, b |-> b]

\* natural_sort_key(a) < natural_sort_key(b), as list.sort evaluates it
\* for two file names (line 753, and line 735 for equal season and episode)
CompareNames ==
    /\ nameCall.op = "call natural_sort_key"
    /\ nameCall' = [op |-> "natural_sort_key",
                    a |-> nameCall.a, b |-> nameCall.b,
                    key_a |-> NaturalSortKey(nameCall.a),
                    key_b |-> NaturalSortKey(nameCall.b),
                    result |-> CompareKeys(NaturalSortKey(nameCall.a),
                                           NaturalSortKey(nameCall.b))]
    /\ UNCHANGED notNames

\* the variables of the later components, parked
RoutesParked == AuthInit /\ ThumbInit /\ ScanConcInit /\ ProbeInit
                /\ SeriesInit

ExtraParked == RoutesParked /\ NamesInit

---------------------------------------------------------------------------
(* Specifications                                                          *)

NextStream == StreamFile \/ GenerateChunk \/ ClientReceive

InitStream == StreamInit /\ TokenInit /\ ConcInit /\ ExtraParked

SpecStream == InitStream /\ [][NextStream]_vars

NextToken == Tick \/ Generate \/ Cleanup \/ Validate

InitToken == StreamParked /\ TokenInit /\ ConcInit /\ ExtraParked

SpecToken == InitToken /\ [][NextToken]_vars

NextTokenConc ==
    \/ ConcTick
    \/ \E th \in Threads :
          \/ GenBegin(th) \/ GenStore(th)
          \/ CleanupBegin(th) \/ CleanupIter(th) \/ CleanupNext(th)
          \/ CleanupDel(th)
          \/ ValidateBegin(th) \/ ValidateLookup(th) \/ ValidateFetch(th)
          \/ ValidateCheck(th)

InitTokenConc == StreamParked /\ TokenInit /\ ConcInit /\ ExtraParked

SpecTokenConc == InitTokenConc /\ [][NextTokenConc]_vars

NextAuth == Tick \/ Generate \/ StreamRequest

InitAuth == StreamParked /\ TokenInit /\ ConcInit /\ ExtraParked

SpecAuth == InitAuth /\ [][NextAuth]_vars

NextThumb ==
    \/ \E p \in Paths : Upload(p) \/ ApiUpload(p) \/ DeleteFile(p)
    \/ \E p, q \in Paths : MoveFile(p, q)
    \/ UploadEnd
    \/ ScanBegin \/ ScanItem \/ ScanRecord \/ ScanEnd
    \/ RegenBegin \/ RegenLoop \/ RegenItem \/ RegenCount \/ RegenEnd
    \/ GenAttempt \/ GenImage

InitThumb == StreamParked /\ TokenInit /\ ConcInit /\ ExtraParked

SpecThumb == InitThumb /\ [][NextThumb]_vars

NextThumbConc ==
    \E th \in Threads :
        \/ ConcScanBegin(th) \/ ConcScanCheck(th)
        \/ ConcGenAttempt(th) \/ ConcScanRecord(th)

InitThumbConc == StreamParked /\ TokenInit /\ ConcInit /\ ExtraParked

SpecThumbConc == InitThumbConc /\ [][NextThumbConc]_vars

NextProbe == Classify \/ ApiVideoInfo \/ StreamVideo

InitProbe == StreamParked /\ TokenInit /\ ConcInit /\ ExtraParked

SpecProbe == InitProbe /\ [][NextProbe]_vars

NextEpisodeInfo == ExtractInfo

InitEpisodeInfo ==
    StreamParked /\ TokenInit /\ ConcInit /\ RoutesParked /\ EpisodeInfoInit

SpecEpisodeInfo == InitEpisodeInfo /\ [][NextEpisodeInfo]_vars

NextNaturalSort == CompareNames

InitNaturalSort ==
    StreamParked /\ TokenInit /\ ConcInit /\ RoutesParked /\ NaturalSortInit

SpecNaturalSort == InitNaturalSort /\ [][NextNaturalSort]_vars

NextSeries ==
    \/ \E f \in Files : AddFile(f) \/ RemoveFile(f)
    \/ FindNext \/ FindPrevious
    \/ ApiNextEpisode \/ ApiPreviousEpisode \/ ApiSeriesEpisodes
    \/ GroupFiles
    \/ NextThenPrevious \/ PreviousThenNext

InitSeries == StreamParked /\ TokenInit /\ ConcInit /\ ExtraParked

SpecSeries == InitSeries /\ [][NextSeries]_vars

---------------------------------------------------------------------------
(* Properties of the /stream route, checked under SpecStream               *)

\* a response of stream_file_with_ranges, headers sent
Ranged == file_type # None /\ path = "ranges"

\* the generator of that response has ended
Ended == pc = "done"

\* the response to a request for bytes s..e of the file
RangeAnswer(s, e) ==
    LET last == Min(e, fileSize - 1)
    IN  /\ status_code = 206
        /\ hContentRange = ContentRangeText(s, last, fileSize)
        /\ hContentLength = Dec(last - s + 1)
        /\ Ended => Coalesce(body) = Bytes(s, last)

\* C1: for a file of N bytes and a Range header bytes=s-e, or bytes=s- (which
\* stands for e = N-1), with s <= e and s < N, the response has status 206,
\* Content-Range 'bytes s-min(e,N-1)/N', Content-Length min(e,N-1)-s+1 and
\* as body the bytes s..min(e,N-1) of the file; an end beyond the file is
\* clamped and is no error.
C1_RangeResponse ==
    Ranged =>
        \A s \in Offsets :
            s < fileSize =>
                /\ range_header = Header(RangeFromText(s))
                       => RangeAnswer(s, fileSize - 1)
                /\ \A e \in Offsets :
                       (s <= e /\ range_header = Header(RangeText(s, e)))
                           => RangeAnswer(s, e)

\* bytes=900-2000 on 1000 bytes: end 999, length 100
C1_Witness ==
    /\ Ranged /\ Ended
    /\ fileSize = 1000
    /\ range_header = Header(RangeText(900, 2000))
    /\ hContentLength = <<"1", "0", "0">>
    /\ body = <<[from |-> 900, to |-> 999]>>

\* C2: a Range header whose start is not numeric is answered as a request
\* with no Range header is: status 200, the whole file, no Content-Range.
C2_MalformedIsNoRange ==
    (Ranged /\ range_header \in {Header(t) : t \in Malformed})
        => /\ status_code = 200
           /\ hContentRange = NoContentRange
           /\ hContentLength = Str(fileSize)
           /\ Ended => Coalesce(body) = Bytes(0, fileSize - 1)

\* C3: every response of stream_file_with_ranges uses a range with
\* 0 <= start <= end <= totalSize-1.
C3_RangeInvariant ==
    Ranged => /\ 0 <= byte_start
              /\ byte_start <= byte_end
              /\ byte_end <= fileSize - 1

\* C4: when the generator ends it has emitted exactly end-start+1 bytes, read
\* in sequence from offset start, which is the Content-Length sent; at no
\* time has it emitted more.
C4_BodyLength ==
    Ranged =>
        /\ hContentLength = Str(byte_end - byte_start + 1)
        /\ BodyLen(body) <= byte_end - byte_start + 1
        /\ Ended => /\ BodyLen(body) = byte_end - byte_start + 1
                    /\ Coalesce(body) = Bytes(byte_start, byte_end)

\* C5: with no Range header the response has status 200, Content-Length N,
\* no Content-Range and the whole file as body: a video through
\* stream_file_with_ranges, any other file through send_file.
C5_NoRangeWholeFile ==
    (file_type # None /\ path # None /\ range_header = NoHeader) =>
        /\ status_code = 200
        /\ hContentLength = Str(fileSize)
        /\ hContentRange = NoContentRange
        /\ path = (IF file_type = "video" THEN "ranges" ELSE "send_file")
        /\ Ended => Coalesce(body) = Bytes(0, fileSize - 1)

\* a video of more than two chunks, sent whole in three chunks
C5_Witness ==
    /\ Ranged /\ Ended
    /\ range_header = NoHeader
    /\ file_type = "video"
    /\ fileSize = 2 * CHUNK_SIZE + 4464
    /\ Len(body) = 3
    /\ status_code = 200

\* C6: the bodies of the range requests of a split of [0, N-1] into
\* consecutive ranges, concatenated in order, are the file: after the
\* ranges up to offset covered-1, the client holds bytes 0..covered-1.
C6_RoundTrip == Coalesce(assembled) = Bytes(0, covered - 1)

\* a file of 1000 bytes assembled whole from three or more bodies
C6_Witness ==
    /\ fileSize = 1000
    /\ covered = fileSize
    /\ Len(assembled) >= 3

---------------------------------------------------------------------------
(* Properties of the token table, one call at a time: SpecToken            *)

\* validate_streaming_token has just returned
Validated == lastCall.op = "validate"

\* the call was made for an issued token, with the filename bound to it,
\* no later than its expiry time
BoundAndFresh ==
    /\ lastCall.token \in DOMAIN issued
    /\ lastCall.filename = issued[lastCall.token].filename
    /\ now <= issued[lastCall.token].expires

\* C7: validate_streaming_token(token, filename) returns true if and only if
\* the token is in the table, is not expired at the time of the call, and
\* the filename bound to it at issuance is the filename supplied; and a
\* token that has failed validation because of expiry never validates again.
C7_ValidateIff ==
    Validated =>
        /\ lastCall.result <=>
               /\ lastCall.present
               /\ now <= issued[lastCall.token].expires
               /\ lastCall.filename = issued[lastCall.token].filename
        /\ lastCall.result => lastCall.token \notin expiredOnce

\* a token that failed validation because of expiry is validated again, with
\* its own filename, and fails
C7_Witness ==
    /\ Validated
    /\ lastCall.token \in expiredOnce
    /\ ~lastCall.present
    /\ lastCall.filename = issued[lastCall.token].filename
    /\ lastCall.result = FALSE

\* C8 as stated: of the validations of one token with its bound filename
\* before expiry, exactly one returns true, so no token validates twice.
C8_ExactlyOnce == \A t \in Tokens : okCount[t] <= 1

\* C8 as amended: every validation of an issued token with its bound
\* filename no later than its expiry time returns true; validating does
\* not use the token up.
C8_ValidBeforeExpiry == (Validated /\ BoundAndFresh) => lastCall.result = TRUE

\* a token validates for the second time
C8_Witness ==
    /\ Validated /\ BoundAndFresh
    /\ lastCall.result = TRUE
    /\ okCount[lastCall.token] = 2

\* C10: right after generate_streaming_token returns, the table holds no
\* token whose expiry time is earlier than the current time, and it holds the
\* token just issued, which validates for its filename.
C10_PurgedOnIssue ==
    lastCall.op = "generate" =>
        /\ \A t \in DOMAIN streaming_tokens :
               ~(streaming_tokens[t].expires < now)
        /\ lastCall.token \in DOMAIN streaming_tokens
        /\ ValidateResult(streaming_tokens, lastCall.token,
                          lastCall.filename, now)

\* an issuance that purged an expired token
C10_Witness ==
    /\ lastCall.op = "generate"
    /\ lastCall.purged # {}
    /\ lastCall.token \in DOMAIN streaming_tokens

---------------------------------------------------------------------------
(* Properties of the token table under threads: SpecTokenConc              *)

\* C9: under any interleaving of generate_streaming_token,
\* validate_streaming_token and cleanup_expired_tokens the table is not
\* corrupted and no token is removed twice: no del (and no lookup) meets a
\* token another thread has removed, and the iteration of cleanup never
\* meets a table whose size another thread has changed; that is, no call
\* ends in KeyError or RuntimeError.
C9_NoDoubleRemoval == raised = {}

---------------------------------------------------------------------------
(* Properties of /stream authentication, checked under SpecAuth            *)

\* the request was answered with the file
Served == authStatus \in {200, 206}

\* C11: a /stream request that presents an unexpired token issued for the
\* file and carries no login session is authorized and served, while a
\* request with neither a session nor a valid token is denied.
C11_TokenAuthorizes ==
    authStatus # NoStatus =>
        /\ (~authReq.session /\ authReq.tokenValid) => Served
        /\ (~authReq.session /\ ~authReq.tokenValid) => ~Served

---------------------------------------------------------------------------
(* Properties of the thumbnails, checked under SpecThumb                   *)

\* C13: generate_thumbnail is invoked for a destination only when no
\* thumbnail file exists there, after any sequence of scans, uploads, moves
\* and deletions; only /api/admin/generate-thumbnails may regenerate an
\* existing thumbnail.
C13_NoRegeneration ==
    (gen.active /\ invoked.existed) => invoked.caller = "regenerate"

\* the call in progress, or just returned, is one of
\* generate_enhanced_video_thumbnail
VideoGen == gen.active /\ TypeOf(gen.path) = "video"

\* the attempts made so far by the call
Attempts == 1..Len(gen.log)

\* C14: the timestamps are tried in the order 5s, 1s, 10s, 30s, one run of
\* the external process each; an attempt succeeds iff the process exits
\* with code zero and the output file exists and is non-empty; no attempt
\* follows a successful one; the result is true iff some attempt succeeded,
\* and false, never an exception, when every attempt has failed.
C14_AttemptOrder ==
    VideoGen =>
        /\ Len(gen.log) <= Len(Timestamps)
        /\ \A i \in Attempts : gen.log[i].ts = Timestamps[i]
        /\ \A i \in Attempts : gen.log[i].ok => i = Len(gen.log)
        /\ Len(gen.log) > 0 =>
               (gen.log[Len(gen.log)].ok
                   <=> /\ gen.last.rc = 0
                       /\ Exists(gen.last.file)
                       /\ NonEmpty(gen.last.file))
        /\ gen.result = None => gen.next = Len(gen.log) + 1
        /\ gen.result = "True" <=> \E i \in Attempts : gen.log[i].ok
        /\ (Len(gen.log) = Len(Timestamps)
              /\ \A i \in Attempts : ~gen.log[i].ok)
               => gen.result = "False"

\* two timestamps failed, the third gave the frame
C14_Witness ==
    /\ VideoGen
    /\ gen.result = "True"
    /\ Len(gen.log) = 3
    /\ gen.last.file = "frame"

\* C15: when the generation for a file has failed on every attempt, the
\* record the scan makes for the file has thumbnail None, in that scan and
\* in every later one until a generation succeeds, also when a failed
\* attempt has left an empty or partial file at the destination.
C15_FailedMeansNoThumbnail ==
    \A p \in Paths :
        (records[p] # "NoRecord" /\ p \notin genOk) => records[p] = None

---------------------------------------------------------------------------
(* Properties of concurrent scans, checked under SpecThumbConc             *)

\* the threads whose call of generate_thumbnail for the file is in progress
Generating == {th \in Threads : spc[th] = "s456" /\ sgen[th].result = None}

\* C12: at most one thumbnail generation per thumbnail key is in progress
\* at any time: of the requests that concurrently scan a directory holding
\* a file whose thumbnail does not exist yet, at most one starts
\* generate_thumbnail for that destination.
C12_SingleFlight == Cardinality(Generating) <= 1

---------------------------------------------------------------------------
(* Properties of the probe and the compatibility decision, checked under   *)
(* SpecProbe                                                               *)

\* the name, in lower case, is one of the set
InWhitelist(name, whitelist) == Lower(name) \in whitelist

\* the container name holds a whitelisted token and the video codec is
\* whitelisted
ContainerAndVideoDecision(info) ==
    /\ \E token \in WEB_COMPATIBLE_CODECS.containers :
           \E i \in 1..Len(info.format_name) :
               \E j \in i..Len(info.format_name) :
                   Lower(SubSeq(info.format_name, i, j)) = token
    /\ info.video_stream.present
    /\ InWhitelist(info.video_stream.codec_name, WEB_COMPATIBLE_CODECS.video)

\* the decision of spec 4.4
Compatible(info) ==
    /\ info.present
    /\ ContainerAndVideoDecision(info)
    /\ \/ ~info.audio_stream.present
       \/ InWhitelist(info.audio_stream.codec_name,
                      WEB_COMPATIBLE_CODECS.audio)

Classified == probeResp.route = "is_web_compatible"

\* C16: is_web_compatible returns true iff the container name contains a
\* whitelisted container token and the video codec is in the video
\* whitelist and there is no audio stream or the audio codec is in the
\* audio whitelist, case-insensitively; absent probe data gives false.
C16_Compatible ==
    Classified =>
        /\ probeResp.web_compatible = "True" <=> Compatible(probeResp.info)
        /\ ~probeResp.info.present => probeResp.web_compatible = "False"

\* a container in capitals with H264 and no audio stream is compatible
C16_Witness ==
    /\ Classified
    /\ probeResp.info.format_name = <<"M", "P", "4">>
    /\ probeResp.info.video_stream = Stream(<<"H", "2", "6", "4">>)
    /\ ~probeResp.info.audio_stream.present
    /\ probeResp.web_compatible = "True"

\* C17: when the probe returns no data for an existing video, /stream and
\* /api/video/info both still answer successfully, the compatibility
\* reported being not web-compatible.
C17_ProbeNeverFails ==
    (/\ probeResp.route \in {"stream_file", "api_video_info"}
     /\ probeResp.exists
     /\ ~probeResp.info.present)
        => /\ probeResp.status \in {200, 206}
           /\ probeResp.route = "api_video_info"
                  => probeResp.web_compatible = "False"

\* C18: for an existing video whose probe has a video stream and no audio
\* stream, /api/video/info answers with a successful summary, the audio
\* codec absent, whose web_compatible flag is the container-and-video-codec
\* decision.
C18_NoAudioIsValid ==
    (/\ probeResp.route = "api_video_info"
     /\ probeResp.exists
     /\ probeResp.info.present
     /\ probeResp.info.video_stream.present
     /\ ~probeResp.info.audio_stream.present)
        => /\ probeResp.status = 200
           /\ ~probeResp.audio_codec.present
           /\ probeResp.web_compatible =
                  Bool(ContainerAndVideoDecision(probeResp.info))

---------------------------------------------------------------------------
(* Properties of episode navigation, checked under SpecSeries              *)

\* the groups of the scan of the directory, which here do not raise
ScanGroups == GroupFilesBySeries(GetEnhancedMediaFiles(library))

\* the group and index at which the record of a file sits
PlacesOf(groups, relative_path) ==
    {<<k, i>> \in UNION {{k} \X (1..Len(groups[k])) : k \in DOMAIN groups} :
        groups[k][i].relative_path = relative_path}

\* the element step places on from the record of the file in its group's
\* ordered list; none at the boundary, for a record that is no video, and
\* for one that is in no group
Neighbour(groups, step, relative_path, type) ==
    IF type # "video" \/ PlacesOf(groups, relative_path) = {}
    THEN NoEpisode
    ELSE LET at == CHOOSE at \in PlacesOf(groups, relative_path) : TRUE
             k  == at[1]
             i  == at[2]
         IN  IF i + step >= 1 /\ i + step <= Len(groups[k])
             THEN Episode(groups[k][i + step])
             ELSE NoEpisode

StepOf(op) ==
    IF op \in {"find_next_episode", "api_next_episode"} THEN 1 ELSE -1

\* C19: for a video record that sits at index i of its group's ordered
\* list, find_next_episode returns the element at index i+1 and
\* find_previous_episode the element at index i-1; each returns none at the
\* boundary, for a record that is no video, and for one in no group.
C19_Adjacent ==
    (/\ navResp.op \in {"find_next_episode", "find_previous_episode"}
     /\ ~GroupingRaises(GetEnhancedMediaFiles(library)))
        => navResp.result = Neighbour(ScanGroups, StepOf(navResp.op),
                                      navResp.relative_path, navResp.type)

\* C20: /api/episode/next/<path> and /api/episode/previous/<path> for a
\* video file found by the scan answer with the adjacent episode of the
\* file's group and success true when there is such a neighbour, with
\* success false when there is none, and with 404 when the file is not in
\* the scan.
C20_ApiAdjacent ==
    (/\ navResp.op \in {"api_next_episode", "api_previous_episode"}
     /\ ~GroupingRaises(GetEnhancedMediaFiles(library)))
        => IF \A i \in 1..Len(library) :
                  RelativePath(library[i]) # navResp.relative_path
           THEN navResp.status = 404
           ELSE navResp.type = "video" =>
                    \E n \in {Neighbour(ScanGroups, StepOf(navResp.op),
                                        navResp.relative_path, "video")} :
                        /\ navResp.status = 200
                        /\ navResp.success = (n.kind = "record")
                        /\ navResp.success => navResp.result = n

---------------------------------------------------------------------------
(* Properties of is_web_compatible on a probe without a video stream,      *)
(* checked under SpecProbe                                                 *)

\* C27: is_web_compatible is a total decision function: for a probe result
\* whose video stream is absent it returns false and does not raise.
C27_TotalWithoutVideo ==
    (/\ Classified
     /\ probeResp.info.present
     /\ ~probeResp.info.video_stream.present)
        => probeResp.web_compatible = "False"

---------------------------------------------------------------------------
(* Properties of an attempt that raises, checked under SpecThumb           *)

\* the last attempt of the call failed without raising
FailedQuietly ==
    /\ Len(gen.log) > 0
    /\ ~gen.log[Len(gen.log)].ok
    /\ ~gen.last.raises

\* C28: in generate_enhanced_video_thumbnail an attempt that raises (the
\* external process exceeding its timeout) ends the whole generation: the
\* result is false and no later timestamp is attempted; after an attempt
\* that exits non-zero or leaves an empty file the next timestamp is tried.
C28_RaiseEndsGeneration ==
    [][/\ (VideoGen' /\ gen'.last.raises) =>
              /\ gen'.result = "False"
              /\ ~gen'.log[Len(gen'.log)].ok
       /\ (VideoGen /\ gen.last.raises) =>
              (gen'.log = gen.log \/ gen'.log = <<>>)
       /\ (VideoGen' /\ FailedQuietly' /\ Len(gen'.log) < Len(Timestamps)) =>
              /\ gen'.result = None
              /\ gen'.next = Len(gen'.log) + 1
       /\ (VideoGen /\ FailedQuietly /\ Len(gen.log) < Len(Timestamps)
             /\ gen'.path = gen.path /\ Len(gen'.log) > Len(gen.log)) =>
              gen'.log[Len(gen'.log)].ts = Timestamps[Len(gen.log) + 1]
      ]_vars

\* the first timestamp exited non-zero, the second timed out and ended the
\* call with two timestamps untried
C28_Witness ==
    /\ VideoGen
    /\ Len(gen.log) = 2
    /\ gen.last.raises
    /\ gen.result = "False"

---------------------------------------------------------------------------
(* The effect of validate_streaming_token on the table, checked under      *)
(* SpecToken                                                               *)

\* the tokens a step takes out of the table
Removed == (DOMAIN streaming_tokens) \ DOMAIN streaming_tokens'

\* C29: validate_streaming_token never adds a token and changes the table
\* only by removing the queried token when that token is expired: a call
\* that returns true, a call with an unknown token and a call with a
\* mismatched filename on an unexpired token leave the table unchanged, and
\* no other token's entry is touched.
C29_ValidateFrame ==
    [][lastCall'.op = "validate" =>
          /\ DOMAIN streaming_tokens' \subseteq DOMAIN streaming_tokens
          /\ \A t \in DOMAIN streaming_tokens' :
                 streaming_tokens'[t] = streaming_tokens[t]
          /\ Removed \subseteq {lastCall'.token}
          /\ Removed # {} <=>
                 /\ lastCall'.token \in DOMAIN streaming_tokens
                 /\ streaming_tokens[lastCall'.token].expires < now
          /\ lastCall'.result = TRUE =>
                 streaming_tokens' = streaming_tokens
          /\ lastCall'.token \notin DOMAIN streaming_tokens =>
                 streaming_tokens' = streaming_tokens
          /\ (/\ lastCall'.token \in DOMAIN streaming_tokens
              /\ streaming_tokens[lastCall'.token].expires >= now
              /\ streaming_tokens[lastCall'.token].filename
                     # lastCall'.filename) =>
                 /\ lastCall'.result = FALSE
                 /\ streaming_tokens' = streaming_tokens
      ]_vars

\* an expired token has just been removed by its validation while another
\* expired token stays in the table
C29_Witness ==
    /\ Validated
    /\ lastCall.purged = {lastCall.token}
    /\ \E t \in DOMAIN streaming_tokens : streaming_tokens[t].expires < now

---------------------------------------------------------------------------
(* Properties of extract_episode_info, checked under SpecEpisodeInfo       *)

\* extract_episode_info has just returned
Extracted == nameCall.op = "extract_episode_info"

\* C24: for every filename, the EpisodeInfo that extract_episode_info
\* returns has its episode set whenever its season is set, whichever
\* pattern or fallback produced it.
C24_SeasonNeedsEpisode ==
    Extracted =>
        (nameCall.info.season # NoNumber => nameCall.info.episode # NoNumber)

\* a season and an episode from the pattern of line 666, in a name that the
\* pattern of line 665 does not match
C24_Witness ==
    /\ Extracted
    /\ nameCall.filename =
           <<"S", "h", "o", "w">>
               \o <<" ", "s", "e", "a", "s", "o", "n", " ", "2">>
               \o <<" ", "E", "p", "i", "s", "o", "d", "e", " ", "1", "1">>
    /\ nameCall.info.season = 2
    /\ nameCall.info.episode = 11

\* the first pattern of lines 664-672 that matches the name without its
\* extension, 0 when none does
FirstRule(clean_name) ==
    IF \A n \in 1..NumPatterns : ~Matches(n, clean_name) THEN 0
    ELSE CHOOSE n \in 1..NumPatterns :
             /\ Matches(n, clean_name)
             /\ \A m \in 1..(n - 1) : ~Matches(m, clean_name)

\* what the groups of the match of rule n give
RuleResult(n, clean_name) ==
    LET q == MatchPos(n, clean_name)
        t == PatternTail(n, clean_name, SpacesEnd(clean_name, q))
    IN  [series_name |-> Text(Strip(SubSeq(clean_name, 1, q - 1))),
         season |-> t.season, episode |-> t.episode]

BreakingBad ==
    <<"B", "r", "e", "a", "k", "i", "n", "g", " ", "B", "a", "d">>

\* C25: the pattern rules are applied in the fixed order and the first rule
\* that matches determines series, season and episode; later rules and the
\* last-digit-run fallback do not change the result of an earlier match.
\* 'Breaking Bad S01E05.mp4' gives series 'Breaking Bad', season 1,
\* episode 5, and 'Show 07.mkv' gives series 'Show', episode 7, season unset.
C25_FirstMatchWins ==
    Extracted =>
        /\ \E clean_name \in {CleanName(nameCall.filename)} :
              FirstRule(clean_name) # 0 =>
                  \E r \in {RuleResult(FirstRule(clean_name), clean_name)} :
                      /\ nameCall.info.series_name = r.series_name
                      /\ nameCall.info.season = r.season
                      /\ nameCall.info.episode = r.episode
        /\ nameCall.filename
               = BreakingBad \o <<" ", "S", "0", "1", "E", "0", "5">>
                     \o <<".", "m", "p", "4">>
               => /\ nameCall.info.series_name = Text(BreakingBad)
                  /\ nameCall.info.season = 1
                  /\ nameCall.info.episode = 5
        /\ nameCall.filename
               = <<"S", "h", "o", "w", " ", "0", "7", ".", "m", "k", "v">>
               => /\ nameCall.info.series_name = Text(<<"S", "h", "o", "w">>)
                  /\ nameCall.info.season = NoNumber
                  /\ nameCall.info.episode = 7

---------------------------------------------------------------------------
(* Properties of natural_sort_key, checked under SpecNaturalSort           *)

\* two names have just been compared by their natural sort keys
Compared == nameCall.op = "natural_sort_key"

EpisodeSpace == <<"E", "p", "i", "s", "o", "d", "e", " ">>

\* the name is the prefix followed by a run of the digits 0 to 9
NumberAfter(prefix, name) ==
    /\ Len(name) > Len(prefix)
    /\ SubSeq(name, 1, Len(prefix)) = prefix
    /\ \A i \in (Len(prefix) + 1)..Len(name) : IsDigit(name[i])

\* C26: natural sort compares digit runs by numeric value and non-digit
\* runs case-insensitively, over any two filenames and without ever
\* comparing a number with a string: 'Episode 2' sorts before 'Episode 10',
\* and 'Episode 10' sorts before 'Episode 10b'.
C26_NaturalOrder ==
    Compared =>
        /\ nameCall.result # "TypeError"
        /\ nameCall.result =
               CompareKeys(NaturalSortKey(Lower(nameCall.a)),
                           NaturalSortKey(Lower(nameCall.b)))
        /\ (NumberAfter(EpisodeSpace, nameCall.a)
              /\ NumberAfter(EpisodeSpace, nameCall.b)) =>
               \E m \in {IntOf(SubSeq(nameCall.a, 9, Len(nameCall.a)))},
                  n \in {IntOf(SubSeq(nameCall.b, 9, Len(nameCall.b)))} :
                   /\ m < n => nameCall.result = "lt"
                   /\ m > n => nameCall.result = "gt"
        /\ (nameCall.a = EpisodeSpace \o <<"2">>
              /\ nameCall.b = EpisodeSpace \o <<"1", "0">>)
               => nameCall.result = "lt"
        /\ (nameCall.a = EpisodeSpace \o <<"1", "0">>
              /\ nameCall.b = EpisodeSpace \o <<"1", "0", "b">>)
               => nameCall.result = "lt"

---------------------------------------------------------------------------
(* Properties of group_files_by_series, checked under SpecSeries           *)

\* group_files_by_series has just been called on the records of the
\* directory
Grouped == navResp.op = "group_files_by_series"

\* the key the record is to be grouped under: its folder path if non-empty,
\* else the series name inferred from the filename, else 'Unknown Series',
\* with slashes replaced by spaces
ExpectedKey(r) ==
    LET key == IF r.folder # <<>> THEN r.folder
               ELSE IF r.series_name.some /\ r.series_name.text # <<>>
               THEN r.series_name.text
               ELSE UnknownSeries
    IN  [i \in 1..Len(key) |-> IF key[i] = "/" THEN " " ELSE key[i]]

\* the group holds a record of the file
HoldsFile(group, r) ==
    \E i \in 1..Len(group) : group[i].relative_path = r.relative_path

\* C21: group_files_by_series assigns every video record the key: its
\* folder path if non-empty, else the series name inferred from the
\* filename, else the literal 'Unknown Series', with slashes in the key
\* replaced by spaces; a video with an empty folder and no inferred series
\* name is placed in the group 'Unknown Series'.
C21_SeriesKey ==
    Grouped =>
        /\ ~navResp.raised
        /\ \A i \in 1..Len(navResp.files) :
               navResp.files[i].type = "video" =>
                   /\ ExpectedKey(navResp.files[i]) \in DOMAIN navResp.groups
                   /\ HoldsFile(navResp.groups[ExpectedKey(navResp.files[i])],
                                navResp.files[i])


\* a navigation route has just answered
Navigated ==
    navResp.op \in {"api_next_episode", "api_previous_episode",
                    "api_series_episodes"}

\* the files of the directory with the path of the request
Asked == {f \in Files : InLibrary(f) /\ RelativePath(f) = navResp.relative_path}

\* the answer of the same route for file f when the directory holds no
\* other file
AnswerAlone(f) ==
    LET files == GetEnhancedMediaFiles(<<f>>)
    IN  IF navResp.op = "api_series_episodes"
        THEN ApiSeries(RelativePath(f), files)
        ELSE ApiEpisode(StepOf(navResp.op), RelativePath(f), files)

\* C22: a single bad file does not affect requests for other files: the
\* answer of a navigation query (/api/episode/next, /previous, /api/series)
\* for video X is not turned into an error by the presence in the same scan
\* of another video Y, whatever Y's name and folder.
C22_BadFileIsolated ==
    (Navigated /\ navResp.status = 500) =>
        \A f \in Asked : AnswerAlone(f).status = 500


\* the key of lines 732-736 of a does not come after that of b: season
\* with unset as 0, then episode with unset as 0, then the natural sort key
\* of the filename
KeyNotAfter(a, b) ==
    \/ OrZero(a.season) < OrZero(b.season)
    \/ /\ OrZero(a.season) = OrZero(b.season)
       /\ OrZero(a.episode) < OrZero(b.episode)
    \/ /\ OrZero(a.season) = OrZero(b.season)
       /\ OrZero(a.episode) = OrZero(b.episode)
       /\ CompareKeys(NaturalSortKey(a.filename), NaturalSortKey(b.filename))
              \in {"lt", "eq"}

\* C23: every group returned by group_files_by_series is ordered by the key
\* (season ascending with unset as 0, episode ascending with unset as 0,
\* natural-sort key of filename): for any two adjacent members a, b of a
\* group, key(a) <= key(b), for every input list and input order.
C23_GroupsOrdered ==
    (Grouped /\ ~navResp.raised) =>
        \A k \in DOMAIN navResp.groups :
            \A i \in 1..(Len(navResp.groups[k]) - 1) :
                KeyNotAfter(navResp.groups[k][i], navResp.groups[k][i + 1])

\* three episodes listed in the reverse of their order come out of the
\* grouping in season and episode order
C23_Witness ==
    /\ Grouped /\ ~navResp.raised
    /\ Len(navResp.files) = 3
    /\ navResp.files[1].filename = ShowName \o S02E01
    /\ navResp.files[2].filename = ShowName \o S01E10
    /\ navResp.files[3].filename = ShowName \o S01E02
    /\ Len(navResp.groups[ShowName]) = 3
    /\ navResp.groups[ShowName][1].filename = ShowName \o S01E02
    /\ navResp.groups[ShowName][3].filename = ShowName \o S02E01


---------------------------------------------------------------------------
(* The navigation round trip, checked under SpecSeries                     *)

\* a member of a group has been navigated from and back
RoundTrip == navResp.op = "there_and_back"

\* the filenames inside each group of the scan are distinct
DistinctFilenames ==
    \E groups \in {ScanGroups} :
        \A k \in DOMAIN groups :
            \A i, j \in 1..Len(groups[k]) :
                groups[k][i].filename = groups[k][j].filename => i = j

\* C30: for any list of video records with distinct filenames inside each
\* group and any record x of a group, if find_next_episode(x) returns y
\* then find_previous_episode(y) returns the record with x's filename, and
\* symmetrically for previous then next.
C30_RoundTrip ==
    (RoundTrip /\ DistinctFilenames) =>
        /\ navResp.back.kind = "record"
        /\ navResp.back_filename = Text(navResp.filename)

\* from the first episode of the second season back to the last of the
\* first and forth again
C30_Witness ==
    /\ RoundTrip /\ DistinctFilenames
    /\ navResp.step = -1
    /\ navResp.filename = ShowName \o S02E01
    /\ navResp.there.relative_path = ShowName \o S01E10
    /\ navResp.back.relative_path = ShowName \o S02E01

===========================================================================
